---- MODULE Spec2Model ----
(***************************************************************************)
(* Paper-trading ledger and execution engine: order intake and cancel      *)
(* (routers/orders.py), market sweep and limit matching                    *)
(* (matching_engine.py), liquidation tick (liquidation_monitor.py), over a *)
(* READ COMMITTED store with row locks.                                    *)
(*                                                                         *)
(* Store model.  The committed relations are accounts, orders, positions   *)
(* and trades.  A transaction buffers its writes in an overlay w and holds *)
(* the locks of the rows it wrote until it commits; its own reads see      *)
(* committed rows plus its overlay, other sessions see committed rows      *)
(* only.  A writing statement is enabled when no other session holds the   *)
(* lock of a row it writes (it blocks otherwise).  Consecutive statements  *)
(* that only write rows (no plain read in between) up to the commit are    *)
(* one step.                                                               *)
(*                                                                         *)
(* Amounts are integers (fixed-point units); a/b is a \div b.              *)
(***************************************************************************)
EXTENDS Integers, Sequences, FiniteSets, Bags, TLC

\* ------------------------------------------------------------------ bounds
MaxOrders == 2      \* orders accepted by intake in one behaviour
MaxOps == 3         \* handler invocations (requests, trade prints, ticks)

\* ------------------------------------------------------- program constants
StartBalance == 100000      \* default account's starting balance
MinLeverage == 1
MaxLeverage == 125
MmrPerMille == 4            \* mmr = 0.004
BookLevels == 100           \* LIMIT 100 of the sweep's book query

\* ------------------------------------------------------------------ values
Null == <<>>                \* SQL NULL / Python None
Some(x) == <<x>>
IsNull(v) == v = <<>>
Val(v) == v[1]

Procs == {1, 2}             \* concurrent sessions (connections)
Users == {"u1", "u2"}
Symbols == {"BTC"}

Min(a, b) == IF a <= b THEN a ELSE b

\* ------------------------------------------------------------------- state
VARIABLES
    accounts,   \* futures.accounts: sequence of rows, id = index
    orders,     \* futures.orders: sequence of rows, id = index
    positions,  \* futures.positions: set of rows, each with its id
    trades,     \* futures.trades: sequence of rows (append-only)
    book,       \* futures.orderbook: [side -> set of <<price, quantity>>]
    nextPosId,  \* the positions id sequence
    proc,       \* per session: the running handler, its locals and overlay
    ops,        \* handler invocations so far
    monitor,    \* LiquidationMonitor: running flag, its loop tasks
    collector   \* BinanceCollector: is_running flag, ws_task, session

store == <<accounts, orders, positions, trades>>
background == <<monitor, collector>>
vars == <<accounts, orders, positions, trades, book, nextPosId, proc, ops,
          monitor, collector>>

\* --------------------------------------------------------------- overlays
NoWrites ==
    [ord |-> <<>>,          \* order id -> new row (rows updated, locked)
     acct |-> <<>>,         \* account id -> <<d_total, d_avail, d_margin>> (locked)
     pos |-> {},            \* current versions of position rows written
     posDel |-> {},         \* ids of position rows deleted
     posLock |-> {},        \* ids of position rows locked
     trades |-> <<>>,       \* trade rows inserted
     pnl |-> <<>>]          \* order id -> realized_pnl set on its trade rows

IdleProc ==
    [pc |-> "idle", req |-> Null, account_id |-> 0, order_id |-> 0,
     margin |-> Null, exec |-> Null, pos |-> Null, rows |-> {},
     w |-> NoWrites, resp |-> Null]

Touched(w) == {q.id : q \in w.pos} \cup w.posDel

\* Rows a session sees: committed rows, with its own writes applied.
PosView(ps, w) == {q \in ps : q.id \notin Touched(w)} \cup w.pos

LockedOrders(w) == DOMAIN w.ord
LockedAccounts(w) == DOMAIN w.acct

\* Row locks held by sessions other than p.
OthersOrders(p) == UNION {LockedOrders(proc[q].w) : q \in Procs \ {p}}
OthersAccounts(p) == UNION {LockedAccounts(proc[q].w) : q \in Procs \ {p}}
OthersPositions(p) == UNION {proc[q].w.posLock : q \in Procs \ {p}}

Put(f, k, v) == [x \in DOMAIN f \cup {k} |-> IF x = k THEN v ELSE f[x]]
Get(f, k, dflt) == IF k \in DOMAIN f THEN f[k] ELSE dflt

\* UPDATE futures.accounts SET total = total + dt, available = available + da,
\* margin = margin + dm WHERE id = :id  (relative; locks the row)
UpdateAccount(w, id, dt, da, dm) ==
    LET d == Get(w.acct, id, <<0, 0, 0>>)
    IN [w EXCEPT !.acct = Put(@, id, <<d[1] + dt, d[2] + da, d[3] + dm>>)]

\* COMMIT: the overlay becomes the committed state.
CommitAccounts(as, w) ==
    [i \in DOMAIN as |->
        LET d == Get(w.acct, i, <<0, 0, 0>>)
        IN [as[i] EXCEPT !.total_balance = @ + d[1],
                         !.available_balance = @ + d[2],
                         !.margin_balance = @ + d[3]]]

CommitOrders(os, w) ==
    [i \in DOMAIN os |-> Get(w.ord, i, os[i])]

CommitPositions(ps, w) == PosView(ps, w)

CommitTrades(ts, w) ==
    [i \in DOMAIN ts |->
        IF IsNull(ts[i].order_id) THEN ts[i]
        ELSE [ts[i] EXCEPT !.realized_pnl =
                 Get(w.pnl, Val(ts[i].order_id), @)]] \o w.trades

Commit(w) ==
    /\ accounts' = CommitAccounts(accounts, w)
    /\ orders' = CommitOrders(orders, w)
    /\ positions' = CommitPositions(positions, w)
    /\ trades' = CommitTrades(trades, w)

\* ------------------------------------------------------ background tasks
\* LiquidationMonitor(): running = False, no loop.  task[p] is the loop that
\* works through session p, logged[p] whether its last check ended in the
\* except branch of start() (logger.error).
MonitorStopped ==
    [running |-> FALSE, task |-> [p \in Procs |-> "none"],
     logged |-> [p \in Procs |-> FALSE]]

\* After startup_event: asyncio.create_task(liquidation_monitor.start()).
MonitorStarted ==
    [MonitorStopped EXCEPT !.running = TRUE, !.task[1] = "loop"]

\* BinanceCollector(): is_running = False, ws_task = None, session = None.
\* logged is whether the last message ended in _handle_message's except
\* branch.
CollectorStopped ==
    [is_running |-> FALSE, ws_task |-> "none", session |-> "none",
     logged |-> FALSE]

\* After startup_event: await collector.start(target_symbols).
CollectorStarted ==
    [is_running |-> TRUE, ws_task |-> "running", session |-> "open",
     logged |-> FALSE]

\* ------------------------------------------------------- session plumbing
Set(p, r) == proc' = [proc EXCEPT ![p] = r]

\* The handler returns: locals and overlay are dropped, the response stays.
Done(p, code, detail) ==
    Set(p, [IdleProc EXCEPT !.resp = Some([code |-> code, detail |-> detail])])

\* Session p may take a new request when every lower session is busy
\* (sessions are interchangeable).
CanStart(p) ==
    /\ proc[p].pc = "idle"
    /\ ops < MaxOps
    /\ \A q \in Procs : q < p => proc[q].pc # "idle"

\* ------------------------------------------------------------ place_order
\* Variant of ValidationError that lets a non-positive quantity through.
ValidationError_NoQuantity(r) ==
    IF r.leverage < MinLeverage \/ r.leverage > MaxLeverage
        THEN "Invalid leverage"
    ELSE IF r.type = "LIMIT" /\ (IsNull(r.price) \/ Val(r.price) <= 0)
        THEN "Price is required for LIMIT orders"
    ELSE ""

\* Lines 28-41 of place_order: the first failing check, "" when none fails.
ValidationError(r) ==
    IF r.leverage < MinLeverage \/ r.leverage > MaxLeverage
        THEN "Invalid leverage"
    ELSE IF r.quantity <= 0
        THEN "Quantity must be positive"
    ELSE IF r.type = "LIMIT" /\ (IsNull(r.price) \/ Val(r.price) <= 0)
        THEN "Price is required for LIMIT orders"
    ELSE ""

\* required_margin = (estimated_price * order.quantity) / order.leverage
RequiredMargin(price, quantity, leverage) == (price * quantity) \div leverage

\* SELECT id FROM accounts WHERE google_id = :g AND is_default = TRUE
DefaultAccounts(g) ==
    {i \in DOMAIN accounts : accounts[i].google_id = g /\ accounts[i].is_default}

\* Variant of OwnsAccount that only looks the account up by id.
OwnsAccount_AnyUser(g, id) == id \in DOMAIN accounts

\* SELECT id FROM accounts WHERE id = :id AND google_id = :g
OwnsAccount(g, id) ==
    id \in DOMAIN accounts /\ accounts[id].google_id = g

NewDefaultAccount(g) ==
    [google_id |-> g, is_default |-> TRUE, total_balance |-> StartBalance,
     available_balance |-> StartBalance, margin_balance |-> 0]

\* except Exception: rollback, HTTPException(500, detail=str(e)).  Every
\* HTTPException raised inside place_order's try block lands here too.
PlaceError(p, detail) == Done(p, 500, detail)

\* Variant of PlaceCheckBalance that never compares the margin to the balance.
PlaceCheckBalance_NoCheck(p, a) ==
    LET r == Val(proc[p].req)
    IN IF r.type = "LIMIT" /\ ~IsNull(r.price) /\ Val(r.price) # 0
       THEN Set(p, [proc[p] EXCEPT !.pc = "po_insert", !.account_id = a,
                       !.margin = Some(RequiredMargin(Val(r.price), r.quantity,
                                                      r.leverage))])
       ELSE Set(p, [proc[p] EXCEPT !.pc = "po_insert", !.account_id = a])

\* Lines 81-98: the balance check of the resolved account a.
PlaceCheckBalance(p, a) ==
    LET r == Val(proc[p].req)
    IN IF r.type = "MARKET"
       THEN Set(p, [proc[p] EXCEPT !.pc = "po_insert", !.account_id = a])
       ELSE IF ~IsNull(r.price) /\ Val(r.price) # 0
       THEN LET m == RequiredMargin(Val(r.price), r.quantity, r.leverage)
            IN IF accounts[a].available_balance < m
               THEN PlaceError(p, "Insufficient balance")
               ELSE Set(p, [proc[p] EXCEPT !.pc = "po_insert",
                                           !.account_id = a,
                                           !.margin = Some(m)])
       ELSE Set(p, [proc[p] EXCEPT !.pc = "po_insert", !.account_id = a])

\* The request arrives.
PlaceStart(p, r) ==
    /\ CanStart(p)
    /\ Len(orders) + Cardinality({q \in Procs : proc[q].pc \in
            {"po_validate", "po_create", "po_balance", "po_insert"}}) < MaxOrders
    /\ Set(p, [IdleProc EXCEPT !.pc = "po_validate", !.req = Some(r)])
    /\ ops' = ops + 1
    /\ UNCHANGED <<store, book, nextPosId, background>>

\* Lines 28-75 (and 81-98 when the account exists): validation, account lookup.
PlaceValidate(p) ==
    /\ proc[p].pc = "po_validate"
    /\ LET r == Val(proc[p].req)
           err == ValidationError(r)
       IN IF err # "" THEN PlaceError(p, err)
          ELSE IF r.account_id = 0
          THEN IF DefaultAccounts(r.google_id) = {}
               THEN Set(p, [proc[p] EXCEPT !.pc = "po_create"])
               ELSE \E a \in DefaultAccounts(r.google_id) : PlaceCheckBalance(p, a)
          ELSE IF ~OwnsAccount(r.google_id, r.account_id)
               THEN PlaceError(p, "Invalid account for this user")
               ELSE PlaceCheckBalance(p, r.account_id)
    /\ UNCHANGED <<store, book, nextPosId, ops, background>>

\* Lines 52-68: INSERT the default account, COMMIT.
PlaceCreate(p) ==
    /\ proc[p].pc = "po_create"
    /\ accounts' = Append(accounts, NewDefaultAccount(Val(proc[p].req).google_id))
    /\ Set(p, [proc[p] EXCEPT !.pc = "po_balance",
                              !.account_id = Len(accounts) + 1])
    /\ UNCHANGED <<orders, positions, trades, book, nextPosId, ops, background>>

\* Lines 81-98 after an account was created.
PlaceBalance(p) ==
    /\ proc[p].pc = "po_balance"
    /\ PlaceCheckBalance(p, proc[p].account_id)
    /\ UNCHANGED <<store, book, nextPosId, ops, background>>

\* Variant of ReserveMargin that writes the order without the reservation.
ReserveMargin_None(w, a, m) == w

\* Lines 100-108: UPDATE accounts ... (margin lock), not yet committed.
ReserveMargin(w, a, m) == UpdateAccount(w, a, 0, 0 - m, m)

NewOrder(r, a) ==
    [account_id |-> a, google_id |-> r.google_id, symbol |-> r.symbol,
     side |-> r.side, order_type |-> r.type, quantity |-> r.quantity,
     price |-> r.price, leverage |-> r.leverage, status |-> "PENDING",
     executed_quantity |-> 0, avg_price |-> Null]

\* Lines 100-138: reserve, INSERT the order PENDING, COMMIT.
PlaceInsert(p) ==
    /\ proc[p].pc = "po_insert"
    /\ LET r == Val(proc[p].req)
           a == proc[p].account_id
           w == IF IsNull(proc[p].margin) THEN NoWrites
                ELSE ReserveMargin(NoWrites, a, Val(proc[p].margin))
       IN /\ LockedAccounts(w) \cap OthersAccounts(p) = {}
          /\ accounts' = CommitAccounts(accounts, w)
          /\ orders' = Append(orders, NewOrder(r, a))
          /\ IF r.type = "MARKET"
             THEN Set(p, [proc[p] EXCEPT !.pc = "po_sweep",
                                         !.order_id = Len(orders) + 1])
             ELSE Done(p, 200, "PENDING")
    /\ UNCHANGED <<positions, trades, book, nextPosId, ops, background>>

\* ----------------------------------------------------- process_market_order
\* ORDER BY price ASC|DESC over a set of <<price, quantity>> levels.
\* (price is unique within a side: the i-th row has i - 1 rows before it.)
SortLevels(S, asc) ==
    [i \in 1..Cardinality(S) |->
        CHOOSE l \in S :
            Cardinality({m \in S : IF asc THEN m[1] < l[1] ELSE m[1] > l[1]}) = i - 1]

\* Variant of BookQuery that reads the side worst price first.
BookQuery_WorstFirst(symbol, side) ==
    LET target_side == IF side = "BUY" THEN "ASK" ELSE "BID"
        sorted == SortLevels(book[symbol][target_side], target_side # "ASK")
    IN SubSeq(sorted, 1, Min(Len(sorted), BookLevels))

\* SELECT price, quantity FROM orderbook WHERE symbol, side ORDER BY price LIMIT 100
BookQuery(symbol, side) ==
    LET target_side == IF side = "BUY" THEN "ASK" ELSE "BID"
        sorted == SortLevels(book[symbol][target_side], target_side = "ASK")
    IN SubSeq(sorted, 1, Min(Len(sorted), BookLevels))

\* for price, qty in orderbook: ... (lines 45-57)
RECURSIVE SweepLoop(_, _, _, _)
SweepLoop(levels, remaining_qty, total_cost, filled_qty) ==
    IF levels = <<>> \/ remaining_qty <= 0
    THEN [total_cost |-> total_cost, filled_qty |-> filled_qty]
    ELSE LET price == Head(levels)[1]
             qty == Head(levels)[2]
             trade_qty == Min(remaining_qty, qty)
         IN SweepLoop(Tail(levels), remaining_qty - trade_qty,
                      total_cost + price * trade_qty, filled_qty + trade_qty)

process_market_order(symbol, side, quantity) ==
    LET orderbook == BookQuery(symbol, side)
    IN IF orderbook = <<>>
       THEN [avg_price |-> 0, filled_qty |-> 0, total_cost |-> 0]
       ELSE LET s == SweepLoop(orderbook, quantity, 0, 0)
            IN [avg_price |-> IF s.filled_qty > 0
                              THEN s.total_cost \div s.filled_qty ELSE 0,
                filled_qty |-> s.filled_qty,
                total_cost |-> s.total_cost]

\* ------------------------------------------------------ position statements
SameKey(q, a, symbol, side) ==
    q.account_id = a /\ q.symbol = symbol /\ q.position_side = side

\* SELECT quantity, entry_price, margin[, margin_type] FROM positions
\* WHERE account_id, symbol, position_side = :opposite_side AND quantity > 0
\* (no filter on status): the rows fetchone() may return.
NettingCandidates(view, a, symbol, opposite_side) ==
    {q \in view : SameKey(q, a, symbol, opposite_side) /\ q.quantity > 0}

\* Rows a DELETE / UPDATE ... WHERE account_id, symbol, position_side touches.
KeyRows(view, a, symbol, side) == {q \in view : SameKey(q, a, symbol, side)}

Ids(rows) == {q.id : q \in rows}

\* DELETE FROM positions WHERE account_id, symbol, position_side
DeletePositions(ps, w, a, symbol, side) ==
    LET rows == KeyRows(PosView(ps, w), a, symbol, side)
    IN [w EXCEPT !.pos = @ \ rows,
                 !.posDel = @ \cup Ids(rows),
                 !.posLock = @ \cup Ids(rows)]

\* UPDATE positions SET quantity = quantity - :qty, margin = margin - :released
\* WHERE account_id, symbol, position_side
ReducePositions(ps, w, a, symbol, side, qty, released_margin) ==
    LET rows == KeyRows(PosView(ps, w), a, symbol, side)
    IN [w EXCEPT !.pos = {q \in @ : q.id \notin Ids(rows)} \cup
                    {[q EXCEPT !.quantity = @ - qty,
                               !.margin = @ - released_margin] : q \in rows},
                 !.posLock = @ \cup Ids(rows)]

\* The row the unique index (account_id, symbol, position_side, status) makes
\* an INSERT of an OPEN row conflict with.
ConflictRows(view, a, symbol, side) ==
    {q \in KeyRows(view, a, symbol, side) : q.status = "OPEN"}

\* Variant of UpsertPosition without the ON CONFLICT clause (and without the
\* unique index): every fill inserts a row.
UpsertPosition_Insert(ps, w, row) ==
    [w EXCEPT !.pos = @ \cup {row}, !.posLock = @ \cup {row.id}]

\* Variant of UpsertPosition whose DO UPDATE leaves entry_price alone.
UpsertPosition_KeepEntry(ps, w, row) ==
    LET hit == ConflictRows(PosView(ps, w), row.account_id, row.symbol,
                            row.position_side)
    IN IF hit = {}
       THEN [w EXCEPT !.pos = @ \cup {row}, !.posLock = @ \cup {row.id}]
       ELSE LET c == CHOOSE q \in hit : TRUE
                u == [c EXCEPT !.quantity = c.quantity + row.quantity,
                               !.margin = c.margin + row.margin]
            IN [w EXCEPT !.pos = {q \in @ : q.id # c.id} \cup {u},
                         !.posLock = @ \cup {c.id}]

\* Variant of UpsertPosition whose DO UPDATE also takes the liquidation
\* price of the row that was to be inserted.
UpsertPosition_NewLiquidation(ps, w, row) ==
    LET hit == ConflictRows(PosView(ps, w), row.account_id, row.symbol,
                            row.position_side)
    IN IF hit = {}
       THEN [w EXCEPT !.pos = @ \cup {row}, !.posLock = @ \cup {row.id}]
       ELSE LET c == CHOOSE q \in hit : TRUE
                u == [c EXCEPT
                        !.quantity = c.quantity + row.quantity,
                        !.margin = c.margin + row.margin,
                        !.liquidation_price = row.liquidation_price,
                        !.entry_price =
                            (c.quantity * c.entry_price
                               + row.quantity * row.entry_price)
                            \div (c.quantity + row.quantity)]
            IN [w EXCEPT !.pos = {q \in @ : q.id # c.id} \cup {u},
                         !.posLock = @ \cup {c.id}]

\* INSERT INTO positions ... ON CONFLICT (account_id, symbol, position_side,
\* status) DO UPDATE SET quantity, margin, entry_price (liquidation_price kept)
UpsertPosition(ps, w, row) ==
    LET hit == ConflictRows(PosView(ps, w), row.account_id, row.symbol,
                            row.position_side)
    IN IF hit = {}
       THEN [w EXCEPT !.pos = @ \cup {row}, !.posLock = @ \cup {row.id}]
       ELSE LET c == CHOOSE q \in hit : TRUE
                u == [c EXCEPT
                        !.quantity = c.quantity + row.quantity,
                        !.margin = c.margin + row.margin,
                        !.entry_price =
                            (c.quantity * c.entry_price
                               + row.quantity * row.entry_price)
                            \div (c.quantity + row.quantity)]
            IN [w EXCEPT !.pos = {q \in @ : q.id # c.id} \cup {u},
                         !.posLock = @ \cup {c.id}]

\* Liquidation price of a position opened at entry_price (lines 277-286):
\* LONG entry * (1 - 1/lev + mmr), SHORT entry * (1 + 1/lev - mmr).
LiquidationPrice(position_side, entry_price, lev) ==
    IF position_side = "LONG"
    THEN (entry_price * (1000 * lev - 1000 + MmrPerMille * lev)) \div (1000 * lev)
    ELSE (entry_price * (1000 * lev + 1000 - MmrPerMille * lev)) \div (1000 * lev)

\* Position rows written by this code get the schema defaults for the columns
\* the INSERT leaves out.
NewPosition(id, a, symbol, position_side, quantity, price, leverage, margin, liq) ==
    [id |-> id, account_id |-> a, symbol |-> symbol,
     position_side |-> position_side, quantity |-> quantity,
     entry_price |-> price, leverage |-> leverage, margin |-> margin,
     liquidation_price |-> liq, status |-> "OPEN", margin_type |-> "ISOLATED",
     closed_at |-> Null]

\* Another session's uncommitted INSERT of the same unique key makes this
\* session's INSERT wait.
UpsertBlocked(p, a, symbol, side) ==
    \E q \in Procs \ {p} : ConflictRows(proc[q].w.pos, a, symbol, side) # {}

LocksFree(p, w) ==
    /\ LockedOrders(w) \cap OthersOrders(p) = {}
    /\ LockedAccounts(w) \cap OthersAccounts(p) = {}
    /\ w.posLock \cap OthersPositions(p) = {}

\* ------------------------------------------- place_order: the MARKET fill
\* UPDATE orders SET status = 'FILLED', executed_quantity, avg_price WHERE id
MarkFilled(w, os, id, filled_qty, avg_price) ==
    [w EXCEPT !.ord = Put(@, id, [os[id] EXCEPT !.status = "FILLED",
                                              !.executed_quantity = filled_qty,
                                              !.avg_price = Some(avg_price)])]

\* Lines 191-254: what closing against existing_pos does to the fill.
MarketClose(existing_pos, filled_qty, avg_price, opposite_side) ==
    LET pos_qty == existing_pos.quantity
        entry_price == existing_pos.entry_price
        pos_margin == existing_pos.margin
        pnl_direction == IF opposite_side = "LONG" THEN 1 ELSE -1
        full == filled_qty >= pos_qty
        close_qty == IF full THEN pos_qty ELSE filled_qty
        released_margin == IF full THEN pos_margin
                           ELSE (pos_margin * filled_qty) \div pos_qty
        current_pnl == (avg_price - entry_price) * close_qty * pnl_direction
    IN [full |-> full, close_qty |-> close_qty,
        released_margin |-> released_margin,
        remaining_qty |-> IF full THEN filled_qty - pos_qty ELSE 0,
        pnl |-> IF existing_pos.margin_type = "ISOLATED"
                   /\ current_pnl < 0 - released_margin
                THEN 0 - released_margin ELSE current_pnl]

\* Variant of MarketNetting that credits available_balance with the released
\* margin only, while total_balance still takes the PnL.
MarketNetting_NoPnl(ps, w, a, symbol, opposite_side, c) ==
    LET w1 == IF c.full THEN DeletePositions(ps, w, a, symbol, opposite_side)
              ELSE ReducePositions(ps, w, a, symbol, opposite_side,
                                   c.close_qty, c.released_margin)
    IN UpdateAccount(w1, a, c.pnl, c.released_margin, 0 - c.released_margin)

\* Lines 203-268: the netting statements.
MarketNetting(ps, w, a, symbol, opposite_side, c) ==
    LET w1 == IF c.full THEN DeletePositions(ps, w, a, symbol, opposite_side)
              ELSE ReducePositions(ps, w, a, symbol, opposite_side,
                                   c.close_qty, c.released_margin)
    IN UpdateAccount(w1, a, c.pnl, c.released_margin + c.pnl, 0 - c.released_margin)

\* Variant of MarketOpen without the debit of the new margin.
MarketOpen_NoDebit(ps, w, r, a, avg_price, remaining_qty, id) ==
    LET position_side == IF r.side = "BUY" THEN "LONG" ELSE "SHORT"
        new_margin == (avg_price * remaining_qty) \div r.leverage
    IN UpsertPosition(ps, w,
           NewPosition(id, a, r.symbol, position_side, remaining_qty,
                       avg_price, r.leverage, new_margin,
                       Some(LiquidationPrice(position_side, avg_price, r.leverage))))

\* Lines 271-327: open or extend the same-side position, debit its margin.
MarketOpen(ps, w, r, a, avg_price, remaining_qty, id) ==
    LET position_side == IF r.side = "BUY" THEN "LONG" ELSE "SHORT"
        new_margin == (avg_price * remaining_qty) \div r.leverage
        row == NewPosition(id, a, r.symbol, position_side, remaining_qty,
                           avg_price, r.leverage, new_margin,
                           Some(LiquidationPrice(position_side, avg_price, r.leverage)))
        w1 == UpsertPosition(ps, w, row)
    IN IF r.type = "MARKET" THEN UpdateAccount(w1, a, 0, 0 - new_margin, new_margin)
       ELSE w1

NewTrade(order_id, a, symbol, side, quantity, price, pnl) ==
    [order_id |-> order_id, account_id |-> a, symbol |-> symbol, side |-> side,
     quantity |-> quantity, price |-> price, realized_pnl |-> pnl]

\* Lines 188-347: every write of the settlement after the order UPDATE.
MarketSettleWrites(ps, w, r, a, order_id, ex, existing_pos, id) ==
    LET opposite_side == IF r.side = "BUY" THEN "SHORT" ELSE "LONG"
        netted == ~IsNull(existing_pos)
        c == IF netted
             THEN MarketClose(Val(existing_pos), ex.filled_qty, ex.avg_price,
                              opposite_side)
             ELSE [full |-> FALSE, close_qty |-> 0, released_margin |-> 0,
                   remaining_qty |-> ex.filled_qty, pnl |-> 0]
        w1 == IF netted THEN MarketNetting(ps, w, a, r.symbol, opposite_side, c)
              ELSE w
        w2 == IF c.remaining_qty > 0
              THEN MarketOpen(ps, w1, r, a, ex.avg_price, c.remaining_qty, id)
              ELSE w1
    IN [w2 EXCEPT !.trades = Append(@,
            NewTrade(Some(order_id), a, r.symbol, r.side, ex.filled_qty,
                     ex.avg_price, Some(c.pnl)))]

\* Variant of PlaceSweep that settles whatever the sweep returned.
PlaceSweep_AlwaysFill(p) ==
    /\ proc[p].pc = "po_sweep"
    /\ LET r == Val(proc[p].req)
           ex == process_market_order(r.symbol, r.side, r.quantity)
       IN Set(p, [proc[p] EXCEPT !.pc = "po_fill", !.exec = Some(ex)])
    /\ UNCHANGED <<store, book, nextPosId, ops, background>>

\* Lines 141-146: the sweep; a zero fill leaves the order PENDING.
PlaceSweep(p) ==
    /\ proc[p].pc = "po_sweep"
    /\ LET r == Val(proc[p].req)
           ex == process_market_order(r.symbol, r.side, r.quantity)
       IN IF ex.filled_qty > 0
          THEN Set(p, [proc[p] EXCEPT !.pc = "po_fill", !.exec = Some(ex)])
          ELSE Done(p, 200, "PENDING")
    /\ UNCHANGED <<store, book, nextPosId, ops, background>>

\* Lines 148-181: UPDATE the order FILLED (takes its row lock), then SELECT
\* the opposite position.
PlaceFill(p) ==
    /\ proc[p].pc = "po_fill"
    /\ LET r == Val(proc[p].req)
           ex == Val(proc[p].exec)
           id == proc[p].order_id
           w == MarkFilled(proc[p].w, orders, id, ex.filled_qty, ex.avg_price)
           opposite_side == IF r.side = "BUY" THEN "SHORT" ELSE "LONG"
           found == NettingCandidates(PosView(positions, w), proc[p].account_id,
                                      r.symbol, opposite_side)
       IN /\ LocksFree(p, w)
          /\ \/ /\ found = {}
                /\ Set(p, [proc[p] EXCEPT !.pc = "po_settle", !.w = w])
             \/ \E q \in found :
                  Set(p, [proc[p] EXCEPT !.pc = "po_settle", !.w = w,
                                         !.pos = Some(q)])
    /\ UNCHANGED <<store, book, nextPosId, ops, background>>

\* Lines 188-355: netting, open/extend, trade row, COMMIT.
PlaceSettle(p) ==
    /\ proc[p].pc = "po_settle"
    /\ LET r == Val(proc[p].req)
           w == MarketSettleWrites(positions, proc[p].w, r, proc[p].account_id,
                                   proc[p].order_id, Val(proc[p].exec),
                                   proc[p].pos, nextPosId)
           position_side == IF r.side = "BUY" THEN "LONG" ELSE "SHORT"
       IN /\ LocksFree(p, w)
          /\ nextPosId \in Ids(w.pos) =>
                ~UpsertBlocked(p, proc[p].account_id, r.symbol, position_side)
          /\ Commit(w)
          /\ nextPosId' = IF nextPosId \in Ids(w.pos) THEN nextPosId + 1
                          ELSE nextPosId
    /\ Done(p, 200, "FILLED")
    /\ UNCHANGED <<book, ops, background>>

\* ------------------------------------------------------------ cancel_order
Cancellable == {"PENDING", "PARTIALLY_FILLED"}

\* Variant of RefundMargin that refunds the notional, not the margin.
RefundMargin_NoLeverage(order) == Val(order.price) * order.quantity

\* refund_margin = (order['price'] * order['quantity']) / order['leverage']
RefundMargin(order) == (Val(order.price) * order.quantity) \div order.leverage

\* Lines 424-442: UPDATE the order CANCELLED, refund a LIMIT order's margin.
\* The refund is computed from the row read at line 412-414.
CancelWrites(os, id, order) ==
    LET w == [NoWrites EXCEPT !.ord = Put(@, id, [os[id] EXCEPT !.status = "CANCELLED"])]
    IN IF order.order_type = "LIMIT"
       THEN LET refund_margin == RefundMargin(order)
            IN UpdateAccount(w, order.account_id, 0, refund_margin, 0 - refund_margin)
       ELSE w

\* Variant of CancelCheck without the status check of lines 420-421.
CancelCheck_NoStatus(os, c) ==
    IF ~(c.order_id \in DOMAIN os /\ os[c.order_id].google_id = c.google_id)
    THEN 404
    ELSE 0

\* Lines 412-421: the outcome of the lookup: 404, 400, or 0 (go on).
CancelCheck(os, c) ==
    IF ~(c.order_id \in DOMAIN os /\ os[c.order_id].google_id = c.google_id)
    THEN 404
    ELSE IF os[c.order_id].status \notin Cancellable THEN 400
    ELSE 0

CancelStart(p, order_id, google_id) ==
    /\ CanStart(p)
    /\ Set(p, [IdleProc EXCEPT !.pc = "co_select",
                  !.req = Some([order_id |-> order_id, google_id |-> google_id])])
    /\ ops' = ops + 1
    /\ UNCHANGED <<store, book, nextPosId, background>>

\* Lines 411-421: SELECT the order of this user, check its status.
\* except HTTPException: raise (the 404 and 400 reach the caller).
CancelSelect(p) ==
    /\ proc[p].pc = "co_select"
    /\ LET c == Val(proc[p].req)
           code == CancelCheck(orders, c)
       IN IF code = 404 THEN Done(p, 404, "Order not found")
          ELSE IF code = 400
          THEN Done(p, 400, "Cannot cancel order in current status")
          ELSE Set(p, [proc[p] EXCEPT !.pc = "co_update",
                                      !.order_id = c.order_id,
                                      !.rows = {orders[c.order_id]}])
    /\ UNCHANGED <<store, book, nextPosId, ops, background>>

\* Lines 423-445: the two UPDATEs and the COMMIT.
CancelCommit(p) ==
    /\ proc[p].pc = "co_update"
    /\ LET w == CancelWrites(orders, proc[p].order_id, CHOOSE o \in proc[p].rows : TRUE)
       IN LocksFree(p, w) /\ Commit(w)
    /\ Done(p, 200, "Order cancelled successfully")
    /\ UNCHANGED <<book, nextPosId, ops, background>>

\* ----------------------------------------------------- process_limit_orders
\* Variant of Crossed without the symbol test.
Crossed_AnySymbol(o, symbol, current_price) ==
    /\ o.status = "PENDING"
    /\ ~IsNull(o.price)
    /\ \/ o.side = "BUY" /\ Val(o.price) >= current_price
       \/ o.side = "SELL" /\ Val(o.price) <= current_price

\* WHERE symbol AND status = 'PENDING' AND ((BUY AND price >= :price) OR
\* (SELL AND price <= :price)); a NULL price compares to NULL (no match).
Crossed(o, symbol, current_price) ==
    /\ o.symbol = symbol
    /\ o.status = "PENDING"
    /\ ~IsNull(o.price)
    /\ \/ o.side = "BUY" /\ Val(o.price) >= current_price
       \/ o.side = "SELL" /\ Val(o.price) <= current_price

\* Variant of ClaimOrders without SKIP LOCKED (and without waiting).
ClaimOrders_NoSkip(p, symbol, current_price) ==
    {i \in DOMAIN orders : Crossed(orders[i], symbol, current_price)}

\* ... FOR UPDATE SKIP LOCKED: crossed rows no other session has locked.
ClaimOrders(p, symbol, current_price) ==
    {i \in DOMAIN orders : Crossed(orders[i], symbol, current_price)}
        \ OthersOrders(p)

\* What SKIP LOCKED passed over (kept for the record; the code sees nothing).
SkipNote(p, symbol, current_price) ==
    LET skipped == {i \in DOMAIN orders : Crossed(orders[i], symbol, current_price)}
                       \cap OthersOrders(p)
    IN IF skipped = {} THEN Null
       ELSE Some([code |-> 0, detail |-> "skip locked", skipped |-> skipped])

\* Row locks of the claimed orders (the rows are not changed yet).
LockOrders(w, os, ids) ==
    [w EXCEPT !.ord = [i \in DOMAIN @ \cup ids |->
                          IF i \in DOMAIN @ THEN @[i] ELSE os[i]]]

\* Lines 149-200: what closing against existing_pos does to the fill.
LimitClose(existing_pos, quantity, price, opposite_side) ==
    LET pos_qty == existing_pos.quantity
        entry_price == existing_pos.entry_price
        pos_margin == existing_pos.margin
        pnl_direction == IF opposite_side = "LONG" THEN 1 ELSE -1
        full == quantity >= pos_qty
        close_qty == IF full THEN pos_qty ELSE quantity
    IN [full |-> full, close_qty |-> close_qty,
        released_margin |-> IF full THEN pos_margin
                            ELSE (pos_margin * quantity) \div pos_qty,
        remaining_qty |-> IF full THEN quantity - pos_qty ELSE 0,
        pnl |-> (price - entry_price) * close_qty * pnl_direction]

\* UPDATE trades SET realized_pnl = :pnl WHERE order_id = :order_id
SetTradePnl(w, order_id, pnl) ==
    [w EXCEPT !.trades = [i \in DOMAIN @ |->
                             IF @[i].order_id = Some(order_id)
                             THEN [@[i] EXCEPT !.realized_pnl = Some(pnl)]
                             ELSE @[i]],
              !.pnl = Put(@, order_id, Some(pnl))]

\* Lines 157-225: the netting statements.
LimitNetting(ps, w, order_id, o, opposite_side, c) ==
    LET w1 == IF c.full
              THEN DeletePositions(ps, w, o.account_id, o.symbol, opposite_side)
              ELSE ReducePositions(ps, w, o.account_id, o.symbol, opposite_side,
                                   c.close_qty, c.released_margin)
        w2 == UpdateAccount(w1, o.account_id, c.pnl, c.released_margin + c.pnl,
                            0 - c.released_margin)
    IN SetTradePnl(w2, order_id, c.pnl)

\* Lines 228-257: open or extend the same-side position.
LimitOpen(ps, w, o, remaining_qty, id) ==
    LET position_side == IF o.side = "BUY" THEN "LONG" ELSE "SHORT"
        margin == (Val(o.price) * remaining_qty) \div o.leverage
    IN UpsertPosition(ps, w,
           NewPosition(id, o.account_id, o.symbol, position_side, remaining_qty,
                       Val(o.price), o.leverage, margin, Null))

\* Variant of LimitFill that marks the order FILLED without setting its
\* executed_quantity.
LimitFill_NoQuantity(w, os, order_id) ==
    LET o == os[order_id]
        w1 == [w EXCEPT !.ord = Put(@, order_id,
                    [o EXCEPT !.status = "FILLED", !.avg_price = o.price])]
    IN [w1 EXCEPT !.trades = Append(@,
            NewTrade(Some(order_id), o.account_id, o.symbol, o.side,
                     o.quantity, Val(o.price), Null))]

\* Lines 99-125: UPDATE the order FILLED at its own price, INSERT its trade.
LimitFill(w, os, order_id) ==
    LET o == os[order_id]
        w1 == [w EXCEPT !.ord = Put(@, order_id,
                    [o EXCEPT !.status = "FILLED",
                              !.executed_quantity = o.quantity,
                              !.avg_price = o.price])]
    IN [w1 EXCEPT !.trades = Append(@,
            NewTrade(Some(order_id), o.account_id, o.symbol, o.side,
                     o.quantity, Val(o.price), Null))]

\* Lines 146-257: the writes that follow the SELECT of the opposite position.
LimitSettleWrites(ps, w, order_id, o, existing_pos, id) ==
    LET opposite_side == IF o.side = "BUY" THEN "SHORT" ELSE "LONG"
        netted == ~IsNull(existing_pos)
        c == IF netted
             THEN LimitClose(Val(existing_pos), o.quantity, Val(o.price),
                             opposite_side)
             ELSE [full |-> FALSE, close_qty |-> 0, released_margin |-> 0,
                   remaining_qty |-> o.quantity, pnl |-> 0]
        w1 == IF netted THEN LimitNetting(ps, w, order_id, o, opposite_side, c)
              ELSE w
    IN IF c.remaining_qty > 0 THEN LimitOpen(ps, w1, o, c.remaining_qty, id)
       ELSE w1

\* process_limit_orders begins: lines 72-95, the claiming SELECT.
MatchClaim(p, symbol, current_price) ==
    /\ proc[p].pc = "idle"
    /\ LET ids == ClaimOrders(p, symbol, current_price)
           note == SkipNote(p, symbol, current_price)
       IN IF ids = {}
          THEN Set(p, [IdleProc EXCEPT !.resp = note])
          ELSE Set(p, [IdleProc EXCEPT !.pc = "m_order", !.rows = ids,
                          !.resp = note,
                          !.w = LockOrders(NoWrites, orders, ids)])
    /\ UNCHANGED <<store, book, nextPosId>>

\* A trade print arrives and is handled in session p.
MatchStart(p, symbol, current_price) ==
    /\ CanStart(p)
    /\ MatchClaim(p, symbol, current_price)
    /\ ops' = ops + 1
    /\ UNCHANGED background

\* Lines 97-144 for the next claimed order (rows come in no stated order).
MatchOrder(p) ==
    /\ proc[p].pc = "m_order"
    /\ \E i \in proc[p].rows :
         LET o == orders[i]
             w == LimitFill(proc[p].w, orders, i)
             opposite_side == IF o.side = "BUY" THEN "SHORT" ELSE "LONG"
             found == NettingCandidates(PosView(positions, w), o.account_id,
                                        o.symbol, opposite_side)
         IN \/ /\ found = {}
               /\ Set(p, [proc[p] EXCEPT !.pc = "m_settle", !.w = w,
                             !.order_id = i, !.rows = @ \ {i}, !.pos = Null])
            \/ \E q \in found :
                 Set(p, [proc[p] EXCEPT !.pc = "m_settle", !.w = w,
                            !.order_id = i, !.rows = @ \ {i}, !.pos = Some(q)])
    /\ UNCHANGED <<store, book, nextPosId, ops, background>>

\* Lines 146-260 for that order; after the last one the block commits.
MatchApply(p) ==
    /\ proc[p].pc = "m_settle"
    /\ LET o == orders[proc[p].order_id]
           w == LimitSettleWrites(positions, proc[p].w, proc[p].order_id, o,
                                  proc[p].pos, nextPosId)
           position_side == IF o.side = "BUY" THEN "LONG" ELSE "SHORT"
       IN /\ LocksFree(p, w)
          /\ nextPosId \in Ids(w.pos) =>
                ~UpsertBlocked(p, o.account_id, o.symbol, position_side)
          /\ nextPosId' = IF nextPosId \in Ids(w.pos) THEN nextPosId + 1
                          ELSE nextPosId
          /\ IF proc[p].rows = {}
             THEN Commit(w) /\ Set(p, IdleProc)
             ELSE /\ Set(p, [proc[p] EXCEPT !.pc = "m_order", !.w = w,
                                !.order_id = 0, !.pos = Null])
                  /\ UNCHANGED store
    /\ UNCHANGED book

\* The settlement of the claimed order in session p.
MatchSettle(p) ==
    /\ MatchApply(p)
    /\ UNCHANGED <<ops, background>>

\* ------------------------------------------------------ liquidation monitor
BestPrice(levels, highest) ==
    IF levels = {} THEN Null
    ELSE Some((CHOOSE l \in levels : \A m \in levels :
                   IF highest THEN l[1] >= m[1] ELSE l[1] <= m[1])[1])

\* get_mark_prices: the bid/ask midpoint of each symbol that has both.  The
\* books of this model keep bid + ask even, so the midpoint is exact.
MarkPrice(symbol) ==
    LET bid == BestPrice(book[symbol]["BID"], TRUE)
        ask == BestPrice(book[symbol]["ASK"], FALSE)
    IN IF IsNull(bid) \/ IsNull(ask) THEN Null
       ELSE Some((Val(bid) + Val(ask)) \div 2)

\* Lines 63-71.
ShouldLiquidate(pos, mark_price) ==
    IF pos.position_side = "LONG"
    THEN mark_price <= Val(pos.liquidation_price)
    ELSE mark_price >= Val(pos.liquidation_price)

\* Lines 45-74: the OPEN rows with a liquidation price that the check passes
\* to liquidate_position.
Breached(ps) ==
    {q \in ps : /\ q.status = "OPEN"
                /\ ~IsNull(q.liquidation_price)
                /\ ~IsNull(MarkPrice(q.symbol))
                /\ ShouldLiquidate(q, Val(MarkPrice(q.symbol)))}

\* UPDATE positions SET status = 'LIQUIDATED' WHERE id: breaks the unique
\* index when another row of the key is LIQUIDATED already.
LiquidateConflict(view, position) ==
    \E q \in view : /\ q.id = position.id
                    /\ \E x \in view : /\ x.id # q.id
                                       /\ SameKey(x, q.account_id, q.symbol,
                                                  q.position_side)
                                       /\ x.status = "LIQUIDATED"

\* liquidate_position(conn, position, mark_price): position is the row as
\* the monitor's SELECT read it.
liquidate_position(ps, w, position, mark_price) ==
    LET rows == {q \in PosView(ps, w) : q.id = position.id}
        w1 == [w EXCEPT !.pos = {q \in @ : q.id # position.id} \cup
                            {[q EXCEPT !.status = "LIQUIDATED",
                                       !.closed_at = Some("NOW")] : q \in rows},
                        !.posLock = @ \cup Ids(rows)]
        loss == position.margin
        w2 == UpdateAccount(w1, position.account_id, 0 - loss, 0,
                            0 - position.margin)
    IN [w2 EXCEPT !.trades = Append(@,
            NewTrade(Null, position.account_id, position.symbol,
                     IF position.position_side = "LONG" THEN "SELL" ELSE "BUY",
                     position.quantity, mark_price, Some(0 - loss)))]

\* The loop of check_liquidations over the rows read; ok = FALSE when a
\* statement raised.
RECURSIVE LiquidateAll(_, _, _, _)
LiquidateAll(ps, w, todo, marks) ==
    IF todo = {} THEN [ok |-> TRUE, w |-> w]
    ELSE LET position == CHOOSE q \in todo : TRUE
         IN IF LiquidateConflict(PosView(ps, w), position)
            THEN [ok |-> FALSE, w |-> w]
            ELSE LiquidateAll(ps,
                     liquidate_position(ps, w, position,
                                        Val(marks[position.symbol])),
                     todo \ {position}, marks)

LiquidateTick(ps, todo, marks) == LiquidateAll(ps, NoWrites, todo, marks)

\* check_liquidations begins: mark prices and the SELECT of OPEN positions
\* (lines 36-53); with nothing to liquidate the tick is over.
TickRead(p) ==
    /\ proc[p].pc = "idle"
    /\ IF Breached(positions) = {}
       THEN Set(p, IdleProc)
       ELSE Set(p, [IdleProc EXCEPT !.pc = "t_liquidate",
                       !.rows = Breached(positions),
                       !.exec = Some([s \in Symbols |-> MarkPrice(s)])])
    /\ UNCHANGED <<store, book, nextPosId>>

\* A tick of a monitor loop begins in session p.
TickStart(p) ==
    /\ CanStart(p)
    /\ TickRead(p)
    /\ ops' = ops + 1
    /\ UNCHANGED background

\* Whether a statement of the tick's liquidations raises.
TickRaises(p) ==
    ~LiquidateTick(positions, proc[p].rows, Val(proc[p].exec)).ok

\* Lines 55-74 and 98-149 for every breached row, then the COMMIT; an
\* exception rolls the whole tick back.
TickWrite(p) ==
    /\ proc[p].pc = "t_liquidate"
    /\ LET marks == Val(proc[p].exec)
           res == LiquidateTick(positions, proc[p].rows, marks)
       IN IF res.ok
          THEN LocksFree(p, res.w) /\ Commit(res.w)
          ELSE UNCHANGED store
    /\ Set(p, IdleProc)
    /\ UNCHANGED <<book, nextPosId>>

\* The rest of a tick in session p (an exception is logged by start()).
TickLiquidate(p) ==
    /\ TickWrite(p)
    /\ UNCHANGED <<ops, background>>

\* ------------------------------------------------------------- price feed
\* _save_orderbook replaces the snapshot of a symbol.
BookCalm == [BID |-> {<<998, 1>>, <<996, 1>>}, ASK |-> {<<1000, 1>>, <<1004, 1>>}]
BookCrash == [BID |-> {<<498, 2>>}, ASK |-> {<<502, 2>>}]
BookEmpty == [BID |-> {}, ASK |-> {}]
Books == {BookCalm, BookCrash, BookEmpty}

BookUpdate(symbol, b) ==
    /\ book[symbol] # b
    /\ book' = [book EXCEPT ![symbol] = b]
    /\ UNCHANGED <<store, nextPosId, proc, ops, background>>

\* ---------------------------------------------------------- store failure
InPlace == {"po_validate", "po_create", "po_balance", "po_insert", "po_sweep",
            "po_fill", "po_settle"}
InCancel == {"co_select", "co_update"}
InMatch == {"m_order", "m_settle"}
InTick == {"t_liquidate"}

\* A statement raises (store unavailable): the open transaction is rolled
\* back; place_order and cancel_order answer 500, the matching trigger and
\* the monitor log the error.
StoreFail(p) ==
    /\ proc[p].pc \in InPlace \cup InCancel \cup InMatch \cup InTick
    /\ IF proc[p].pc \in InPlace \cup InCancel
       THEN Done(p, 500, "store failure")
       ELSE Set(p, IdleProc)
    /\ UNCHANGED <<store, book, nextPosId, ops, background>>

\* ------------------------------------------------------------------ inputs
Request(g, a, side, type, quantity, price, leverage) ==
    [symbol |-> "BTC", side |-> side, type |-> type, quantity |-> quantity,
     price |-> price, leverage |-> leverage, google_id |-> g, account_id |-> a]

Sides == {"BUY", "SELL"}

\* Valid orders of one user: both sides and types, one or two lots.
ValidRequests ==
    {Request("u1", 0, s, "MARKET", q, Null, 2) : s \in Sides, q \in {1, 2}}
    \cup {Request("u1", 0, s, "LIMIT", q, Some(1000), 2) : s \in Sides, q \in {1, 2}}

\* Requests intake must reject: leverage out of range, quantity not positive,
\* LIMIT without a positive price, margin above the balance.
BadRequests ==
    {Request("u1", 0, "BUY", "LIMIT", 1, Some(1000), l) : l \in {0, 126}}
    \cup {Request("u1", 0, "SELL", "MARKET", q, Null, 2) : q \in {0, -1}}
    \cup {Request("u1", 0, "BUY", "LIMIT", 1, x, 2) : x \in {Null, Some(0), Some(-5)}}
    \cup {Request("u1", 0, "BUY", "LIMIT", 1, Some(300000), 2)}

\* Requests that name account 1: its owner's (when u1 has it), another user's.
AccountRequests ==
    {Request(g, 1, "BUY", "LIMIT", 1, Some(1000), 2) : g \in Users}

Requests == ValidRequests \cup BadRequests \cup AccountRequests

TradePrices == {1000}

\* ------------------------------------------------------------ specification
Init ==
    /\ accounts = <<>>
    /\ orders = <<>>
    /\ positions = {}
    /\ trades = <<>>
    /\ book = [s \in Symbols |-> BookCalm]
    /\ nextPosId = 1
    /\ proc = [p \in Procs |-> IdleProc]
    /\ ops = 0
    /\ monitor = MonitorStarted
    /\ collector = CollectorStarted

Next ==
    \/ \E p \in Procs, r \in Requests : PlaceStart(p, r)
    \/ \E p \in Procs : PlaceValidate(p)
    \/ \E p \in Procs : PlaceCreate(p)
    \/ \E p \in Procs : PlaceBalance(p)
    \/ \E p \in Procs : PlaceInsert(p)
    \/ \E p \in Procs : PlaceSweep(p)
    \/ \E p \in Procs : PlaceFill(p)
    \/ \E p \in Procs : PlaceSettle(p)
    \/ \E p \in Procs, i \in 1..MaxOrders, g \in Users : CancelStart(p, i, g)
    \/ \E p \in Procs : CancelSelect(p)
    \/ \E p \in Procs : CancelCommit(p)
    \/ \E p \in Procs, s \in Symbols, x \in TradePrices : MatchStart(p, s, x)
    \/ \E p \in Procs : MatchOrder(p)
    \/ \E p \in Procs : MatchSettle(p)
    \/ \E p \in Procs : TickStart(p)
    \/ \E p \in Procs : TickLiquidate(p)
    \/ \E s \in Symbols, b \in Books : BookUpdate(s, b)
    \/ \E p \in Procs : StoreFail(p)

Spec == Init /\ [][Next]_vars

\* ------------------------------------------- process_market_order, alone
\* The sweep on its own, over books of one, a few and more than BookLevels
\* levels.  Prices are in tenths, quantities in halves of a unit: the book
\* asks [(100, 0.5), (101, 1.0)] is {<<1000, 1>>, <<1010, 2>>}.
BookExample == [BID |-> {<<990, 1>>, <<980, 3>>}, ASK |-> {<<1000, 1>>, <<1010, 2>>}]
BookUneven == [BID |-> {<<997, 2>>, <<999, 1>>, <<990, 3>>},
               ASK |-> {<<1005, 2>>, <<1000, 3>>, <<1001, 1>>}]
BookDeep == [BID |-> {<<1000 - i, 1>> : i \in 1..(BookLevels + 1)},
             ASK |-> {<<1000 + i, 1>> : i \in 1..(BookLevels + 1)}]
BookAsksOnly == [BID |-> {}, ASK |-> {<<1000, 2>>, <<1002, 2>>}]
BookBidsOnly == [BID |-> {<<998, 2>>, <<996, 2>>}, ASK |-> {}]

SweepBooks == {BookExample, BookUneven, BookDeep, BookAsksOnly, BookBidsOnly,
               BookCalm, BookCrash, BookEmpty}

SweepQuantities == {1, 2, 3, 4, 5, 7, 150}

\* result = await matching_engine.process_market_order(symbol, side, quantity)
SweepCall(p, symbol, side, quantity) ==
    /\ proc' = [proc EXCEPT ![p] =
                  [IdleProc EXCEPT
                     !.req = Some([symbol |-> symbol, side |-> side,
                                   quantity |-> quantity]),
                     !.exec = Some(process_market_order(symbol, side, quantity))]]
    /\ UNCHANGED <<store, book, nextPosId, ops, background>>

SweepInit ==
    /\ accounts = <<>>
    /\ orders = <<>>
    /\ positions = {}
    /\ trades = <<>>
    /\ book \in [Symbols -> SweepBooks]
    /\ nextPosId = 1
    /\ proc = [p \in Procs |-> IdleProc]
    /\ ops = 0
    /\ monitor = MonitorStarted
    /\ collector = CollectorStarted

SweepNext ==
    \E s \in Symbols, side \in Sides, q \in SweepQuantities : SweepCall(1, s, side, q)

SweepSpec == SweepInit /\ [][SweepNext]_vars

\* ------------------------------------------------- liquidation tick, alone
\* Ticks of one or two monitors over ledgers that hold a LONG of account 1
\* (opened by a market order, liquidation price 504, or by a limit fill, no
\* liquidation price), an earlier LIQUIDATED LONG of the same account and a
\* SHORT of account 2 (liquidation price 1496); the book moves below, onto
\* and past both liquidation prices and loses a side.
BookAtLong == [BID |-> {<<503, 1>>}, ASK |-> {<<505, 1>>}]
BookAboveLong == [BID |-> {<<504, 1>>}, ASK |-> {<<506, 1>>}]
BookAtShort == [BID |-> {<<1495, 1>>}, ASK |-> {<<1497, 1>>}]
BookBelowShort == [BID |-> {<<1494, 1>>}, ASK |-> {<<1496, 1>>}]
BookNoAsk == [BID |-> {<<498, 2>>}, ASK |-> {}]
TickBooks == {BookCalm, BookCrash, BookAtLong, BookAboveLong, BookAtShort,
              BookBelowShort, BookNoAsk}

LongOpen(liq) ==
    NewPosition(2, 1, "BTC", "LONG", 1, 1000, 2, 500, liq)
LongLiquidated ==
    [NewPosition(1, 1, "BTC", "LONG", 1, 1000, 2, 500,
                 Some(LiquidationPrice("LONG", 1000, 2)))
        EXCEPT !.status = "LIQUIDATED", !.closed_at = Some("NOW")]
ShortOpen ==
    NewPosition(3, 2, "BTC", "SHORT", 1, 1000, 2, 500,
                Some(LiquidationPrice("SHORT", 1000, 2)))

TickLedgers ==
    {l \cup e \cup s :
        l \in {{}, {LongOpen(Some(LiquidationPrice("LONG", 1000, 2)))},
                   {LongOpen(Null)}},
        e \in {{}, {LongLiquidated}},
        s \in {{}, {ShortOpen}}}

\* The account of user g as the ledger ps leaves it: the margin of its OPEN
\* positions pledged, the margin of its LIQUIDATED positions lost.
LedgerAccount(g, a, ps) ==
    LET open == Cardinality({q \in ps : q.account_id = a /\ q.status = "OPEN"})
        lost == Cardinality({q \in ps : q.account_id = a /\ q.status = "LIQUIDATED"})
    IN [NewDefaultAccount(g) EXCEPT
           !.total_balance = @ - 500 * lost,
           !.available_balance = @ - 500 * lost - 500 * open,
           !.margin_balance = 500 * open]

TickInit ==
    /\ positions \in TickLedgers
    /\ accounts = <<LedgerAccount("u1", 1, positions),
                    LedgerAccount("u2", 2, positions)>>
    /\ orders = <<>>
    /\ trades = <<>>
    /\ book = [s \in Symbols |-> BookCalm]
    /\ nextPosId = 4
    /\ proc = [p \in Procs |-> IdleProc]
    /\ ops = 0
    /\ monitor = MonitorStarted
    /\ collector = CollectorStarted

TickNext ==
    \/ \E p \in Procs : TickStart(p)
    \/ \E p \in Procs : TickLiquidate(p)
    \/ \E s \in Symbols, b \in TickBooks : BookUpdate(s, b)
    \/ \E p \in Procs : StoreFail(p)

TickSpec == TickInit /\ [][TickNext]_vars

\* ------------------------------------------------ LiquidationMonitor loop
\* The monitor object with its start() and stop() calls and its loop tasks
\* (liquidation_monitor.py 10-30).  The loop task[p] runs its checks in
\* session p; between two checks it sleeps.  logged[p] is set when a check
\* ends in the except branch and cleared when a check ends without raising.
\* start() needs a free task slot.
\* Line 16: if self.running: return.
AlreadyRunning == monitor.running

\* Variant of Logged: the exception is logged and ends the loop.
Logged_Raise(p) == [monitor EXCEPT !.logged[p] = TRUE, !.task[p] = "none"]

\* Lines 24-25: except Exception: logger.error(...); the loop goes on to its
\* sleep.
Logged(p) == [monitor EXCEPT !.logged[p] = TRUE]

\* The check returned.
Checked(p) == [monitor EXCEPT !.logged[p] = FALSE]

\* await liquidation_monitor.start()
MonitorStart ==
    /\ IF AlreadyRunning
       THEN UNCHANGED monitor
       ELSE \E p \in Procs :
               /\ monitor.task[p] = "none"
               /\ proc[p].pc = "idle"
               /\ monitor' = [monitor EXCEPT !.running = TRUE,
                                 !.task[p] = "loop", !.logged[p] = FALSE]
    /\ UNCHANGED <<store, book, nextPosId, proc, ops, collector>>

\* liquidation_monitor.stop()
MonitorStop ==
    /\ monitor' = [monitor EXCEPT !.running = FALSE]
    /\ UNCHANGED <<store, book, nextPosId, proc, ops, collector>>

\* while self.running: await self.check_liquidations(), up to the SELECT of
\* the positions.
LoopTick(p) ==
    /\ monitor.task[p] = "loop"
    /\ monitor.running
    /\ TickRead(p)
    /\ monitor' = IF proc'[p].pc = "idle" THEN Checked(p) ELSE monitor
    /\ UNCHANGED <<ops, collector>>

\* The rest of the check, then await asyncio.sleep(1).
LoopLiquidate(p) ==
    /\ monitor.task[p] = "loop"
    /\ TickWrite(p)
    /\ monitor' = IF TickRaises(p) THEN Logged(p) ELSE Checked(p)
    /\ UNCHANGED <<ops, collector>>

\* A statement of the check raises (store unavailable), at its start or in
\* its course: rollback, then the except branch.
LoopFail(p) ==
    /\ monitor.task[p] = "loop"
    /\ \/ proc[p].pc = "idle" /\ monitor.running
       \/ proc[p].pc \in InTick
    /\ Set(p, IdleProc)
    /\ monitor' = Logged(p)
    /\ UNCHANGED <<store, book, nextPosId, ops, collector>>

\* The sleep is over and self.running is False: start() returns.
LoopExit(p) ==
    /\ monitor.task[p] = "loop"
    /\ proc[p].pc = "idle"
    /\ ~monitor.running
    /\ monitor' = [monitor EXCEPT !.task[p] = "none"]
    /\ UNCHANGED <<store, book, nextPosId, proc, ops, collector>>

MonitorInit ==
    /\ positions \in TickLedgers
    /\ accounts = <<LedgerAccount("u1", 1, positions),
                    LedgerAccount("u2", 2, positions)>>
    /\ orders = <<>>
    /\ trades = <<>>
    /\ book = [s \in Symbols |-> BookCalm]
    /\ nextPosId = 4
    /\ proc = [p \in Procs |-> IdleProc]
    /\ ops = 0
    /\ monitor = MonitorStopped
    /\ collector = CollectorStopped

MonitorNext ==
    \/ MonitorStart
    \/ MonitorStop
    \/ \E p \in Procs : LoopTick(p)
    \/ \E p \in Procs : LoopLiquidate(p)
    \/ \E p \in Procs : LoopFail(p)
    \/ \E p \in Procs : LoopExit(p)
    \/ \E s \in Symbols, b \in Books : BookUpdate(s, b)

\* The event loop runs every task that is ready: a loop whose sleep is over
\* goes on (to its next check or, stopped, to its end), a check whose
\* statements do not raise completes.  start(), stop(), book updates and
\* failures happen or not.
MonitorSpec ==
    /\ MonitorInit
    /\ [][MonitorNext]_vars
    /\ \A p \in Procs : /\ WF_vars(LoopTick(p) \/ LoopExit(p))
                         /\ WF_vars(LoopLiquidate(p))

\* ------------------------------------------- process_limit_orders, alone
\* Limit matching over resting orders of two symbols, on both sides, below,
\* at and above the trade price, PENDING or CANCELLED, with concurrent
\* matching calls.  The account carries the margin of its PENDING orders.
MatchSymbols == {"BTC", "ETH"}
RestingPrices == {990, 1000, 1010}

RestingOrder(symbol, side, price, status) ==
    [account_id |-> 1, google_id |-> "u1", symbol |-> symbol, side |-> side,
     order_type |-> "LIMIT", quantity |-> 1, price |-> Some(price),
     leverage |-> 2, status |-> status, executed_quantity |-> 0,
     avg_price |-> Null]

RestingOrders ==
    {RestingOrder(s, side, x, st) :
        s \in MatchSymbols, side \in Sides, x \in RestingPrices,
        st \in {"PENDING", "CANCELLED"}}

\* The margin intake reserved for the orders that are still PENDING.
ReservedFor(os) ==
    LET m == [i \in DOMAIN os |->
                 IF os[i].status = "PENDING"
                 THEN RequiredMargin(Val(os[i].price), os[i].quantity, os[i].leverage)
                 ELSE 0]
    IN ReserveMargin(NoWrites, 1, BagCardinality([i \in {j \in DOMAIN m : m[j] > 0} |-> m[i]]))

MatchInit ==
    /\ orders \in [1..MaxOrders -> RestingOrders]
    /\ accounts = CommitAccounts(<<NewDefaultAccount("u1")>>, ReservedFor(orders))
    /\ positions = {}
    /\ trades = <<>>
    /\ book = [s \in Symbols |-> BookCalm]
    /\ nextPosId = 1
    /\ proc = [p \in Procs |-> IdleProc]
    /\ ops = 0
    /\ monitor = MonitorStarted
    /\ collector = CollectorStarted

MatchNext ==
    \/ \E p \in Procs, s \in MatchSymbols, x \in TradePrices : MatchStart(p, s, x)
    \/ \E p \in Procs : MatchOrder(p)
    \/ \E p \in Procs : MatchSettle(p)
    \/ \E p \in Procs : StoreFail(p)

MatchSpec == MatchInit /\ [][MatchNext]_vars

\* ---------------------------------------------- BinanceCollector consumer
\* The collector object with its start() and stop() calls and the websocket
\* task that handles the aggTrade messages one after the other in session 1
\* (collector.py 34-67, 186-271).  logged is set when a message ends in the
\* except branch of _handle_message and cleared when process_limit_orders
\* returns.  Depth and ticker messages and the market_trades buffer are left
\* out.
\* Variant of Handled: the exception is logged and ends the task.
Handled_Raise == [collector EXCEPT !.logged = TRUE, !.ws_task = "none"]

\* Lines 270-271: except Exception: logger.error(...); the async for goes on.
Handled == [collector EXCEPT !.logged = TRUE]

\* process_limit_orders returned.
Returned == [collector EXCEPT !.logged = FALSE]

Consuming == collector.is_running /\ collector.ws_task = "running"

\* await collector.start(symbols)
CollectorStart ==
    /\ IF collector.is_running
       THEN UNCHANGED collector
       ELSE collector' = CollectorStarted
    /\ UNCHANGED <<store, book, nextPosId, proc, ops, monitor>>

\* await collector.stop(): the flag, ws_task.cancel(), await ws_task,
\* session.close().  The CancelledError is raised at the await the task is
\* suspended in; inside process_limit_orders it leaves the async with block,
\* which rolls the transaction back.  Interrupted and failed calls are
\* counted in ops and capped by MaxOps (position ids drawn by a transaction
\* that is rolled back are not given back).
CollectorStop ==
    /\ IF ~collector.is_running
       THEN UNCHANGED <<collector, proc, ops>>
       ELSE /\ collector' = [collector EXCEPT !.is_running = FALSE,
                                !.ws_task = "cancelled", !.session = "closed"]
            /\ proc' = [p \in Procs |->
                          IF proc[p].pc \in InMatch THEN IdleProc ELSE proc[p]]
            /\ IF \E p \in Procs : proc[p].pc \in InMatch
               THEN ops < MaxOps /\ ops' = ops + 1
               ELSE UNCHANGED ops
    /\ UNCHANGED <<store, book, nextPosId, monitor>>

\* An aggTrade message: _handle_message calls process_limit_orders, up to
\* its claiming SELECT.
ConsumerPrint(symbol, current_price) ==
    /\ Consuming
    /\ MatchClaim(1, symbol, current_price)
    /\ collector' = IF proc'[1].pc = "idle" THEN Returned ELSE collector
    /\ UNCHANGED <<ops, monitor>>

\* The fill of the next claimed order.
ConsumerOrder ==
    /\ Consuming
    /\ MatchOrder(1)

\* The settlement of that order; after the last one the call returns.
ConsumerSettle ==
    /\ Consuming
    /\ MatchApply(1)
    /\ collector' = IF proc'[1].pc = "idle" THEN Returned ELSE collector
    /\ UNCHANGED <<ops, monitor>>

\* A statement of process_limit_orders raises (store unavailable), at its
\* start or in its course: rollback, then the except branch.
ConsumerFail ==
    /\ Consuming
    /\ proc[1].pc \in {"idle"} \cup InMatch
    /\ ops < MaxOps
    /\ ops' = ops + 1
    /\ Set(1, IdleProc)
    /\ collector' = Handled
    /\ UNCHANGED <<store, book, nextPosId, monitor>>

CollectorInit ==
    /\ orders \in [1..MaxOrders -> RestingOrders]
    /\ accounts = CommitAccounts(<<NewDefaultAccount("u1")>>, ReservedFor(orders))
    /\ positions = {}
    /\ trades = <<>>
    /\ book = [s \in Symbols |-> BookCalm]
    /\ nextPosId = 1
    /\ proc = [p \in Procs |-> IdleProc]
    /\ ops = 0
    /\ monitor = MonitorStopped
    /\ collector = CollectorStopped

CollectorNext ==
    \/ CollectorStart
    \/ CollectorStop
    \/ \E s \in MatchSymbols, x \in TradePrices : ConsumerPrint(s, x)
    \/ ConsumerOrder
    \/ ConsumerSettle
    \/ ConsumerFail

\* Trade prints keep arriving while the consumer is connected, and the event
\* loop runs the consumer task when it is ready.  start(), stop() and
\* failures happen or not.
CollectorSpec ==
    /\ CollectorInit
    /\ [][CollectorNext]_vars
    /\ WF_vars(\E s \in MatchSymbols, x \in TradePrices : ConsumerPrint(s, x))
    /\ WF_vars(ConsumerOrder)
    /\ WF_vars(ConsumerSettle)

\* ------------------------------------- the two settlement paths, side by side
\* Two users with the same ledger: the same balance and the same position
\* (or none).  u1 sends a MARKET order, which the book fills at FillPrice;
\* u2 has a LIMIT order of the same side, quantity and leverage resting at
\* that price, its margin reserved by intake, and a trade print crosses it.
FillLeverages == {2, 5}
FillQuantities == {1, 2}
CrossingPrints == {990, 1010}

FillPrice(side, quantity) == process_market_order("BTC", side, quantity).avg_price

\* The position both users start with: none, or one lot or three, LONG or
\* SHORT, entered at 1000, at 400 or at 2000.
StartPositions ==
    {Null} \cup
    {Some([position_side |-> ps, quantity |-> q, entry_price |-> e]) :
        ps \in {"LONG", "SHORT"}, q \in {1, 3}, e \in {400, 1000, 2000}}

StartPosition(id, a, sp) ==
    NewPosition(id, a, "BTC", sp.position_side, sp.quantity, sp.entry_price, 2,
                RequiredMargin(sp.entry_price, sp.quantity, 2),
                Some(LiquidationPrice(sp.position_side, sp.entry_price, 2)))

\* The account of user g with the margin of its position pledged and
\* reserved more held for its resting order.
StartAccount(g, a, sp, reserved) ==
    LET m == IF IsNull(sp) THEN 0
             ELSE RequiredMargin(Val(sp).entry_price, Val(sp).quantity, 2)
    IN CommitAccounts(<<NewDefaultAccount(g), NewDefaultAccount(g)>>,
                      ReserveMargin(NoWrites, a, m + reserved))[a]

SettleInit ==
    /\ book = [s \in Symbols |-> BookCalm]
    /\ \E side \in Sides, q \in FillQuantities, l \in FillLeverages,
          sp \in StartPositions :
          LET x == FillPrice(side, q)
              o == NewOrder(Request("u2", 2, side, "LIMIT", q, Some(x), l), 2)
          IN /\ orders = <<o>>
             /\ accounts = <<StartAccount("u1", 1, sp, 0),
                             StartAccount("u2", 2, sp, RequiredMargin(x, q, l))>>
             /\ positions = IF IsNull(sp) THEN {}
                            ELSE {StartPosition(1, 1, Val(sp)),
                                  StartPosition(2, 2, Val(sp))}
    /\ trades = <<>>
    /\ nextPosId = 3
    /\ proc = [p \in Procs |-> IdleProc]
    /\ ops = 0
    /\ monitor = MonitorStarted
    /\ collector = CollectorStarted

\* u1's MARKET order with the side, quantity and leverage of the resting one.
TwinRequest ==
    Request("u1", 0, orders[1].side, "MARKET", orders[1].quantity, Null,
            orders[1].leverage)

\* u1's request arrives (once).
TwinStart(p) ==
    /\ Len(orders) = 1
    /\ PlaceStart(p, TwinRequest)

SettleNext ==
    \/ \E p \in Procs : TwinStart(p)
    \/ \E p \in Procs : PlaceValidate(p)
    \/ \E p \in Procs : PlaceInsert(p)
    \/ \E p \in Procs : PlaceSweep(p)
    \/ \E p \in Procs : PlaceFill(p)
    \/ \E p \in Procs : PlaceSettle(p)
    \/ \E p \in Procs, x \in CrossingPrints : MatchStart(p, "BTC", x)
    \/ \E p \in Procs : MatchOrder(p)
    \/ \E p \in Procs : MatchSettle(p)

SettleSpec == SettleInit /\ [][SettleNext]_vars

\* ------------------------------------------ MARKET orders that carry a price
\* OrderCreate.price is optional for either type, and place_order stores it
\* with the order.  One user with an account sends MARKET orders with and
\* without a price and LIMIT orders, while trade prints arrive.
PricedRequests ==
    {Request("u1", 0, s, "MARKET", 1, x, 2) : s \in Sides, x \in {Null, Some(1000)}}
    \cup {Request("u1", 0, s, "LIMIT", 1, Some(1000), 2) : s \in Sides}

PricedInit ==
    /\ accounts = <<NewDefaultAccount("u1")>>
    /\ orders = <<>>
    /\ positions = {}
    /\ trades = <<>>
    /\ book = [s \in Symbols |-> BookCalm]
    /\ nextPosId = 1
    /\ proc = [p \in Procs |-> IdleProc]
    /\ ops = 0
    /\ monitor = MonitorStarted
    /\ collector = CollectorStarted

PricedNext ==
    \/ \E p \in Procs, r \in PricedRequests : PlaceStart(p, r)
    \/ \E p \in Procs : PlaceValidate(p)
    \/ \E p \in Procs : PlaceInsert(p)
    \/ \E p \in Procs : PlaceSweep(p)
    \/ \E p \in Procs : PlaceFill(p)
    \/ \E p \in Procs : PlaceSettle(p)
    \/ \E p \in Procs, x \in TradePrices : MatchStart(p, "BTC", x)
    \/ \E p \in Procs : MatchOrder(p)
    \/ \E p \in Procs : MatchSettle(p)

PricedSpec == PricedInit /\ [][PricedNext]_vars

\* ------------------------------------------- netting against one position
\* One user holds a position; MARKET orders of either side, of one or two
\* lots, arrive in two sessions and net against it or extend it.
NettingRequests ==
    {Request("u1", 0, s, "MARKET", q, Null, 2) : s \in Sides, q \in FillQuantities}

NettingInit ==
    /\ \E sp \in StartPositions \ {Null} :
          /\ accounts = <<StartAccount("u1", 1, sp, 0)>>
          /\ positions = {StartPosition(1, 1, Val(sp))}
    /\ orders = <<>>
    /\ trades = <<>>
    /\ book = [s \in Symbols |-> BookCalm]
    /\ nextPosId = 2
    /\ proc = [p \in Procs |-> IdleProc]
    /\ ops = 0
    /\ monitor = MonitorStarted
    /\ collector = CollectorStarted

NettingNext ==
    \/ \E p \in Procs, r \in NettingRequests : PlaceStart(p, r)
    \/ \E p \in Procs : PlaceValidate(p)
    \/ \E p \in Procs : PlaceInsert(p)
    \/ \E p \in Procs : PlaceSweep(p)
    \/ \E p \in Procs : PlaceFill(p)
    \/ \E p \in Procs : PlaceSettle(p)

NettingSpec == NettingInit /\ [][NettingNext]_vars

\* ------------------------------------------ MARKET orders on a shallow book
\* One user without positions sends MARKET orders of one or two lots while
\* each side of the book holds a single lot: an order of two lots is filled
\* in part.
ShallowInit ==
    /\ accounts = <<NewDefaultAccount("u1")>>
    /\ orders = <<>>
    /\ positions = {}
    /\ trades = <<>>
    /\ book = [s \in Symbols |-> BookAtLong]
    /\ nextPosId = 1
    /\ proc = [p \in Procs |-> IdleProc]
    /\ ops = 0
    /\ monitor = MonitorStarted
    /\ collector = CollectorStarted

ShallowSpec == ShallowInit /\ [][NettingNext]_vars

\* The monitor under fair ticks: as MonitorSpec, and a failure of the store
\* is transient, so that a loop whose checks keep reaching their writes
\* completes a check again and again.
FairTickSpec ==
    /\ MonitorInit
    /\ [][MonitorNext]_vars
    /\ \A p \in Procs : /\ WF_vars(LoopTick(p) \/ LoopExit(p))
                         /\ SF_vars(LoopLiquidate(p))

\* ================================================================== claims
TradesOf(i) == {k \in DOMAIN trades : trades[k].order_id = Some(i)}

\* C1: in every committed ledger state, under any interleaving of LIMIT
\* reservation, MARKET settlement, cancel, limit matching and liquidation,
\* every account has total_balance = available_balance + margin_balance.
C1_BalanceIdentity ==
    \A i \in DOMAIN accounts :
        accounts[i].total_balance
            = accounts[i].available_balance + accounts[i].margin_balance

\* An account that holds locked margin and has realized a PnL or a loss.
C1_Witness ==
    \E i \in DOMAIN accounts :
        /\ accounts[i].margin_balance > 0
        /\ accounts[i].total_balance # StartBalance
        /\ trades # <<>>

\* C2: in every reachable state there is at most one OPEN position per
\* (account, symbol, side): a same-side fill extends the OPEN row.
C2_OneOpenPerKey ==
    \A x \in positions : \A y \in positions :
        (/\ x.status = "OPEN" /\ y.status = "OPEN"
         /\ SameKey(y, x.account_id, x.symbol, x.position_side)) => x.id = y.id

\* An OPEN position built from two same-side fills (more than one fill's
\* largest quantity).
C2_Witness ==
    \E x \in positions : x.status = "OPEN" /\ x.quantity >= 3

\* C3: when concurrent process_limit_orders calls cross the same PENDING
\* order, one of them claims it (no order is locked by two sessions), the
\* order gets one Trade row, never two, and a FILLED order has exactly one.
C3_ClaimedOnce ==
    /\ \A p \in Procs : \A q \in Procs \ {p} :
          LockedOrders(proc[p].w) \cap LockedOrders(proc[q].w) = {}
    /\ \A i \in DOMAIN orders : Cardinality(TradesOf(i)) <= 1
    /\ \A i \in DOMAIN orders :
          orders[i].status = "FILLED" => Cardinality(TradesOf(i)) = 1

\* A matcher is settling an order that a second, concurrent matcher crossed
\* and skipped because the first holds it.
C3_Witness ==
    \E p \in Procs : \E q \in Procs \ {p} :
        /\ proc[p].pc \in InMatch
        /\ ~IsNull(proc[q].resp)
        /\ Val(proc[q].resp).detail = "skip locked"
        /\ Val(proc[q].resp).skipped \cap LockedOrders(proc[p].w) # {}

\* C4: once an order's committed status is terminal (FILLED, CANCELLED,
\* REJECTED, EXPIRED) no later step changes it.
Terminal == {"FILLED", "CANCELLED", "REJECTED", "EXPIRED"}

C4_TerminalImmutable ==
    [][\A i \in DOMAIN orders :
          orders[i].status \in Terminal => orders'[i].status = orders[i].status]_vars

\* C5: settlement is atomic: in every committed state an order is FILLED if
\* and only if its Trade row (and with it its position and account effects)
\* is committed.
C5_FilledIffSettled ==
    \A i \in DOMAIN orders : orders[i].status = "FILLED" <=> TradesOf(i) # {}

\* The amount a LIMIT order row pledges: price * quantity / leverage.
Pledge(o) == (Val(o.price) * o.quantity) \div o.leverage

\* This step moved d from margin_balance to available_balance of account a
\* (d < 0: the other way) and left its total_balance alone.
Released(a, d) ==
    /\ accounts'[a].available_balance = accounts[a].available_balance + d
    /\ accounts'[a].margin_balance = accounts[a].margin_balance - d
    /\ accounts'[a].total_balance = accounts[a].total_balance

Answer(p) == Val(proc'[p].resp)

\* Session p returns in this step.
Returns(p, from) == proc[p].pc \in from /\ proc'[p].pc = "idle"

\* C6: placing a LIMIT order moves m = price*quantity/leverage from
\* available_balance to margin_balance, and cancelling it while it is still
\* PENDING moves exactly m back, leaves total_balance alone and ends the
\* order CANCELLED: a round trip on the account.
C6_RoundTrip ==
    [][/\ (Len(orders') = Len(orders) + 1
             /\ orders'[Len(orders')].order_type = "LIMIT")
          => LET o == orders'[Len(orders')]
             IN Released(o.account_id, 0 - Pledge(o))
       /\ \A p \in Procs :
            LET i == proc[p].order_id
            IN (/\ Returns(p, {"co_update"})
                /\ Answer(p).code = 200
                /\ orders[i].status = "PENDING"
                /\ orders[i].order_type = "LIMIT")
               => /\ Released(orders[i].account_id, Pledge(orders[i]))
                  /\ orders'[i].status = "CANCELLED"]_vars

\* The only order, a LIMIT order, was cancelled: the account is back at its
\* starting balances.
C6_Witness ==
    /\ Len(orders) = 1
    /\ orders[1].order_type = "LIMIT"
    /\ orders[1].status = "CANCELLED"
    /\ \E p \in Procs : proc[p].resp = Some([code |-> 200,
                            detail |-> "Order cancelled successfully"])
    /\ accounts[orders[1].account_id].available_balance = StartBalance
    /\ accounts[orders[1].account_id].margin_balance = 0

C8_ReserveWithOrder ==
    [][/\ Len(orders') = Len(orders) + 1
          => LET o == orders'[Len(orders')]
             IN /\ o.status = "PENDING"
                /\ o.order_type = "LIMIT"
                     => /\ Released(o.account_id, 0 - Pledge(o))
                        /\ \A a \in DOMAIN accounts \ {o.account_id} :
                              accounts'[a] = accounts[a]
                /\ o.order_type = "MARKET" => accounts' = accounts
       /\ \A p \in Procs :
            (/\ proc[p].pc \in {"po_validate", "po_create", "po_balance", "po_insert"}
             /\ proc'[p] # proc[p]
             /\ Len(orders') = Len(orders))
            => \A a \in DOMAIN accounts : accounts'[a] = accounts[a]]_vars

\* A PENDING LIMIT order whose pledge is the account's whole locked margin.
C8_Witness ==
    \E i \in DOMAIN orders :
        /\ orders[i].order_type = "LIMIT"
        /\ orders[i].status = "PENDING"
        /\ Pledge(orders[i]) > 0
        /\ accounts[orders[i].account_id].margin_balance = Pledge(orders[i])
        /\ accounts[orders[i].account_id].available_balance
               = StartBalance - Pledge(orders[i])

\* C9: place_order rejects quantity <= 0, a LIMIT order with a missing or
\* non-positive price, and leverage outside [1,125]; the rejected request
\* writes no order and changes no account, position or trade.
Invalid(r) ==
    \/ r.quantity <= 0
    \/ r.type = "LIMIT" /\ (r.price = Null \/ Val(r.price) <= 0)
    \/ r.leverage < 1
    \/ r.leverage > 125

C9_RejectsInvalid ==
    [][\A p \in Procs :
          (/\ proc[p].pc = "po_validate"
           /\ proc'[p] # proc[p]
           /\ Invalid(Val(proc[p].req)))
          => /\ proc'[p].pc = "idle"
             /\ Answer(p).code >= 400
             /\ UNCHANGED store]_vars

\* A request was rejected by one of the three validation checks.
C9_Witness ==
    \E p \in Procs :
        /\ ~IsNull(proc[p].resp)
        /\ Val(proc[p].resp).detail \in
              {"Invalid leverage", "Quantity must be positive",
               "Price is required for LIMIT orders"}

\* The request of session p is a LIMIT order whose margin exceeds the
\* available balance of account a.
Short(p, a) ==
    LET r == Val(proc[p].req)
    IN /\ ValidationError(r) = ""
       /\ r.type = "LIMIT"
       /\ accounts[a].available_balance < (Val(r.price) * r.quantity) \div r.leverage

InsufficientBalance == Some([code |-> 500, detail |-> "Insufficient balance"])

\* The first request of the run was rejected for its balance.
OnlyRequestRejected ==
    ops = 1 /\ \E p \in Procs : proc[p].resp = InsufficientBalance

\* C10 as stated: a LIMIT order whose required margin exceeds the available
\* balance is rejected with accounts, orders, positions and trades exactly
\* as before the request, also when the request carried no account and the
\* user had none.
C10_RejectedLeavesStore ==
    OnlyRequestRejected
        => accounts = <<>> /\ orders = <<>> /\ positions = {} /\ trades = <<>>

\* C10, amended: a LIMIT order whose required margin exceeds the available
\* balance of its account is rejected; the rejecting step writes nothing, so
\* orders, positions, trades and every account that existed are as before,
\* but the default account place_order created (and committed) for a user
\* without one stays, with its starting balances.
C10_RejectedKeepsNewAccount ==
    /\ [](OnlyRequestRejected
            => /\ orders = <<>> /\ positions = {} /\ trades = <<>>
               /\ \E g \in Users : accounts = <<NewDefaultAccount(g)>>)
    /\ [][\A p \in Procs :
            /\ (/\ proc[p].pc = "po_balance"
                /\ proc'[p] # proc[p]
                /\ Short(p, proc[p].account_id))
               => /\ proc'[p].pc = "idle"
                  /\ Answer(p).code >= 400
                  /\ UNCHANGED store
            /\ (/\ proc[p].pc = "po_validate"
                /\ proc'[p] # proc[p]
                /\ Val(proc[p].req).account_id = 0
                /\ DefaultAccounts(Val(proc[p].req).google_id) # {}
                /\ \A a \in DefaultAccounts(Val(proc[p].req).google_id) : Short(p, a))
               => /\ proc'[p].pc = "idle"
                  /\ Answer(p).code >= 400
                  /\ UNCHANGED store
            /\ (proc[p].pc = "po_create" /\ proc'[p] # proc[p]
                /\ proc'[p].pc # "idle")
               => /\ accounts' = Append(accounts,
                        NewDefaultAccount(Val(proc[p].req).google_id))
                  /\ UNCHANGED <<orders, positions, trades>>]_vars

\* The first request of the run, from a user without an account, was
\* rejected for its balance: the new default account is there.
C10_Witness ==
    /\ OnlyRequestRejected
    /\ accounts = <<NewDefaultAccount("u1")>>

\* C11: every order is written against an account of the requesting user:
\* the account the request names when it names one, else the user's default
\* account, which is created with total = available = 100000 and margin = 0
\* when the user has none; a request naming an account that is not the
\* user's is rejected and changes no relation.
C11_OwnAccount ==
    /\ [](\A i \in DOMAIN orders :
            /\ orders[i].account_id \in DOMAIN accounts
            /\ accounts[orders[i].account_id].google_id = orders[i].google_id)
    /\ [][\A p \in Procs :
            LET r == Val(proc[p].req)
                mine == {a \in DOMAIN accounts : accounts[a].google_id = r.google_id}
            IN /\ (/\ proc[p].pc = "po_validate"
                   /\ proc'[p] # proc[p]
                   /\ r.account_id # 0
                   /\ r.account_id \notin mine)
                  => /\ proc'[p].pc = "idle"
                     /\ Answer(p).code >= 400
                     /\ UNCHANGED store
               /\ (/\ proc[p].pc = "po_validate"
                   /\ proc'[p].pc = "po_create")
                  => /\ r.account_id = 0
                     /\ \A a \in mine : ~accounts[a].is_default
               /\ (/\ proc[p].pc = "po_create"
                   /\ proc'[p].pc = "po_balance")
                  => /\ Len(accounts') = Len(accounts) + 1
                     /\ SubSeq(accounts', 1, Len(accounts)) = accounts
                     /\ accounts'[Len(accounts')] =
                          [google_id |-> r.google_id, is_default |-> TRUE,
                           total_balance |-> 100000,
                           available_balance |-> 100000, margin_balance |-> 0]
                     /\ proc'[p].account_id = Len(accounts')
               /\ (/\ proc[p].pc = "po_insert"
                   /\ proc'[p] # proc[p]
                   /\ Len(orders') = Len(orders) + 1)
                  => LET o == orders'[Len(orders')]
                     IN /\ o.google_id = r.google_id
                        /\ o.account_id \in mine
                        /\ r.account_id # 0 => o.account_id = r.account_id
                        /\ r.account_id = 0 => accounts[o.account_id].is_default]_vars

\* A request naming another user's account was refused while that account
\* carries an order of its owner.
C11_Witness ==
    /\ \E p \in Procs :
          proc[p].resp = Some([code |-> 500,
                               detail |-> "Invalid account for this user"])
    /\ \E i \in DOMAIN orders : orders[i].account_id = 1 /\ orders[i].google_id = "u1"
    /\ accounts[1] = [NewDefaultAccount("u1") EXCEPT !.available_balance = 99500,
                                                     !.margin_balance = 500]

\* Sum of f over the set S, for f with values in Nat: the size of the bag
\* that holds f[x] copies of each x.
SumOver(f, S) == BagCardinality([x \in {y \in S : f[y] > 0} |-> f[x]])

\* Level m is strictly better than level l for an order of this side.
Better(side, m, l) == IF side = "BUY" THEN m[1] < l[1] ELSE m[1] > l[1]

\* The (at most) 100 best levels of the side a sweep of this side takes from.
BestLevels(symbol, side) ==
    LET levels == book[symbol][IF side = "BUY" THEN "ASK" ELSE "BID"]
    IN {l \in levels : Cardinality({m \in levels : Better(side, m, l)}) < 100}

\* What a best-first sweep of quantity takes from each level: what is left
\* after the better levels, up to the level's own quantity.
Taken(symbol, side, quantity) ==
    LET S == BestLevels(symbol, side)
        ahead == [l \in S |->
                    SumOver([m \in S |-> m[2]], {m \in S : Better(side, m, l)})]
    IN [l \in S |-> Min(IF quantity > ahead[l] THEN quantity - ahead[l] ELSE 0, l[2])]

\* C12: process_market_order sweeps the opposite side best-first over at most
\* 100 levels, taking min(remaining, level quantity) from each: filled_qty is
\* min(quantity, depth of those levels), total_cost the sum of price * taken,
\* avg_price total_cost / filled_qty (0 when nothing fills); BUY 1 against
\* asks [(100, 0.5), (101, 1.0)] fills 1 at 100.5.
C12_SweepResult ==
    \A p \in Procs :
        (~IsNull(proc[p].req) /\ ~IsNull(proc[p].exec))
        => LET c == Val(proc[p].req)
               res == Val(proc[p].exec)
               S == BestLevels(c.symbol, c.side)
               taken == Taken(c.symbol, c.side, c.quantity)
           IN /\ Cardinality(S) <= 100
              /\ res.filled_qty = Min(c.quantity, SumOver([l \in S |-> l[2]], S))
              /\ res.filled_qty = SumOver(taken, S)
              /\ res.total_cost = SumOver([l \in S |-> l[1] * taken[l]], S)
              /\ res.filled_qty > 0 =>
                    /\ res.avg_price * res.filled_qty <= res.total_cost
                    /\ res.total_cost < (res.avg_price + 1) * res.filled_qty
              /\ res.filled_qty = 0 => res.avg_price = 0
              /\ (book[c.symbol] = BookExample /\ c.side = "BUY" /\ c.quantity = 2)
                    => res.filled_qty = 2 /\ res.avg_price = 1005

\* The example was swept: BUY 1 against asks [(100, 0.5), (101, 1.0)].
C12_Witness ==
    \E p \in Procs :
        /\ ~IsNull(proc[p].req) /\ ~IsNull(proc[p].exec)
        /\ book["BTC"] = BookExample
        /\ Val(proc[p].req).side = "BUY"
        /\ Val(proc[p].exec) = [avg_price |-> 1005, filled_qty |-> 2,
                                total_cost |-> 2010]

\* The side of the book an order of this side trades against.
Opposite(side) == IF side = "BUY" THEN "ASK" ELSE "BID"

\* C13: a MARKET order placed while the opposite side of the book is empty
\* fills nothing: place_order answers status PENDING, not an error, the
\* order stays as it was written (PENDING) and no position, account or
\* trade changes.
C13_ZeroFillPending ==
    [][\A p \in Procs :
          (/\ proc[p].pc = "po_sweep"
           /\ proc'[p] # proc[p]
           /\ book[Val(proc[p].req).symbol][Opposite(Val(proc[p].req).side)] = {})
          => /\ proc'[p].pc = "idle"
             /\ \/ Answer(p) = [code |-> 200, detail |-> "PENDING"]
                \/ Answer(p).detail = "store failure"
             /\ UNCHANGED store]_vars

\* A MARKET order met an empty book: it is PENDING, the caller was told so,
\* and there is no position and no trade.
C13_Witness ==
    /\ book["BTC"] = BookEmpty
    /\ Len(orders) = 1
    /\ orders[1].order_type = "MARKET"
    /\ orders[1].status = "PENDING"
    /\ \E p \in Procs : proc[p].resp = Some([code |-> 200, detail |-> "PENDING"])
    /\ positions = {} /\ trades = <<>>
    /\ accounts[orders[1].account_id] = NewDefaultAccount("u1")

\* The orders a trade print of symbol at trade_price should fill.
Fillable(symbol, trade_price) ==
    {i \in DOMAIN orders :
        /\ orders[i].status = "PENDING"
        /\ orders[i].symbol = symbol
        /\ \/ orders[i].side = "BUY" /\ Val(orders[i].price) >= trade_price
           \/ orders[i].side = "SELL" /\ Val(orders[i].price) <= trade_price}

\* C14: process_limit_orders(symbol, trade_price) claims exactly the orders
\* that are PENDING, on that symbol and crossed (BUY with price >=
\* trade_price, SELL with price <= trade_price) and that no other session
\* holds; when the call commits every claimed order is FILLED, and no other
\* order is changed by any step of limit matching.
C14_FillsCrossed ==
    [][/\ \A p \in Procs, s \in MatchSymbols, x \in TradePrices :
            MatchStart(p, s, x)
            => /\ LockedOrders(proc'[p].w) = Fillable(s, x) \ OthersOrders(p)
               /\ proc'[p].pc = "m_order" => proc'[p].rows = LockedOrders(proc'[p].w)
               /\ UNCHANGED store
       /\ \A p \in Procs :
            (proc[p].pc \in InMatch /\ proc'[p].pc \in InMatch)
            => LockedOrders(proc'[p].w) = LockedOrders(proc[p].w)
       /\ \A p \in Procs :
            (proc[p].pc = "m_settle" /\ proc'[p].pc = "idle" /\ store' # store)
            => \A i \in LockedOrders(proc[p].w) : orders'[i].status = "FILLED"
       /\ \A i \in DOMAIN orders :
            orders'[i] # orders[i]
            => /\ orders[i].status = "PENDING"
               /\ orders'[i].status = "FILLED"
               /\ \E p \in Procs : /\ proc[p].pc = "m_settle"
                                   /\ proc'[p].pc = "idle"
                                   /\ i \in LockedOrders(proc[p].w)]_vars

\* One call filled the crossed BTC order and left a PENDING order of the
\* other symbol, crossed at the same price, alone.
C14_Witness ==
    \E i \in DOMAIN orders : \E j \in DOMAIN orders :
        /\ orders[i].symbol = "BTC" /\ orders[i].status = "FILLED"
        /\ orders[j].symbol = "ETH" /\ orders[j].status = "PENDING"
        /\ orders[j].side = "BUY" /\ Val(orders[j].price) >= 1000
        /\ Len(trades) = 1
        /\ \A p \in Procs : proc[p].pc = "idle"

\* C15: every order filled by limit matching is filled in full at its own
\* limit price, whatever the trade price that triggered it: its
\* executed_quantity is its quantity, its avg_price its limit price, and its
\* Trade carries that quantity and price.
C15_FullAtLimitPrice ==
    \A i \in DOMAIN orders :
        orders[i].status = "FILLED"
        => /\ orders[i].executed_quantity = orders[i].quantity
           /\ orders[i].avg_price = orders[i].price
           /\ TradesOf(i) # {}
           /\ \A k \in TradesOf(i) :
                 /\ trades[k].quantity = orders[i].quantity
                 /\ trades[k].price = Val(orders[i].price)
                 /\ trades[k].side = orders[i].side
                 /\ trades[k].symbol = orders[i].symbol

\* A BUY at 1010 and a SELL at 990 were filled by trade prints at 1000, each
\* at its own price.
C15_Witness ==
    \E i \in DOMAIN orders : \E j \in DOMAIN orders :
        /\ orders[i].status = "FILLED" /\ orders[i].side = "BUY"
        /\ orders[i].avg_price = Some(1010)
        /\ orders[j].status = "FILLED" /\ orders[j].side = "SELL"
        /\ orders[j].avg_price = Some(990)
        /\ Len(trades) = 2

\* The margin released in this step by the positions of account a that it
\* deleted or reduced (closed in full or in part).
ClosedMargin(a) ==
    LET closed == {q \in positions :
                     /\ q.account_id = a
                     /\ \A r \in positions' : r.id = q.id => r.quantity < q.quantity}
        left == [q \in closed |->
                    IF q.id \in Ids(positions')
                    THEN (CHOOSE r \in positions' : r.id = q.id).margin ELSE 0]
    IN SumOver([q \in closed |-> q.margin - left[q]], closed)

\* C16: when a settlement, market or limit, closes an isolated position at a
\* loss larger than the margin it releases, the realized loss is clamped to
\* that margin: closing never takes more than the released margin from the
\* account's total_balance.
C16_LossClamped ==
    [][\A a \in DOMAIN accounts :
          ClosedMargin(a) > 0
          => accounts'[a].total_balance - accounts[a].total_balance
                >= 0 - ClosedMargin(a)]_vars

\* Orders this step fills.
FilledNow == {i \in DOMAIN orders :
                 orders'[i].status = "FILLED" /\ orders[i].status # "FILLED"}

\* This step closes no position, in full or in part.
NoClose == \A q \in positions : \E r \in positions' :
               r.id = q.id /\ r.quantity >= q.quantity

PositionSide(o) == IF o.side = "BUY" THEN "LONG" ELSE "SHORT"

\* The margin of a fill: price * quantity / leverage.
FillMargin(o) == (Val(o.avg_price) * o.executed_quantity) \div o.leverage

\* The position that results from adding fill o to the position e
\* (quantity 0: none): quantities and margins add, the entry price is the
\* quantity-weighted mean.
Added(e, o) ==
    [quantity |-> e.quantity + o.executed_quantity,
     margin |-> e.margin + FillMargin(o),
     entry_price |-> (e.quantity * e.entry_price
                        + o.executed_quantity * Val(o.avg_price))
                     \div (e.quantity + o.executed_quantity)]

Shape(q) == [quantity |-> q.quantity, margin |-> q.margin,
             entry_price |-> q.entry_price]

\* C17: a fill q2@p2 that adds to the OPEN position q1@p1 of its (account,
\* symbol, side), in a step that closes nothing and fills no order of the
\* other side, leaves one OPEN position with quantity q1+q2, margin the
\* sum of the fill margins and entry price (q1*p1+q2*p2)/(q1+q2); a first
\* fill opens it with q1, its margin and p1; so for market fills, for limit
\* fills and for every further same-side fill.
C17_WeightedEntry ==
    [][NoClose =>
        \A i \in FilledNow :
            LET o == orders'[i]
                same == {j \in FilledNow :
                           /\ orders'[j].account_id = o.account_id
                           /\ orders'[j].symbol = o.symbol
                           /\ orders'[j].side = o.side}
                open == {q \in positions :
                           /\ SameKey(q, o.account_id, o.symbol, PositionSide(o))
                           /\ q.status = "OPEN"}
                open2 == {q \in positions' :
                           /\ SameKey(q, o.account_id, o.symbol, PositionSide(o))
                           /\ q.status = "OPEN"}
                e == IF open = {}
                     THEN [quantity |-> 0, margin |-> 0, entry_price |-> 0]
                     ELSE Shape(CHOOSE q \in open : TRUE)
                against == {j \in FilledNow :
                              /\ orders'[j].account_id = o.account_id
                              /\ orders'[j].symbol = o.symbol
                              /\ orders'[j].side # o.side}
            IN against = {} =>
               /\ Cardinality(open2) = 1
               /\ \A n \in open2 :
                    /\ n.quantity = e.quantity
                          + SumOver([j \in same |-> orders'[j].executed_quantity], same)
                    /\ n.margin = e.margin
                          + SumOver([j \in same |-> FillMargin(orders'[j])], same)
                    /\ same = {i} => Shape(n) = Added(e, o)
                    /\ Cardinality(same) = 2 =>
                          \E j \in same \ {i} :
                              \/ Shape(n) = Added(Added(e, o), orders'[j])
                              \/ Shape(n) = Added(Added(e, orders'[j]), o)]_vars

\* One fill at 1000 and two more at an average of 1002 on the same side: one
\* OPEN position of 3 at 3004/3 with both margins.
C17_Witness ==
    \E q \in positions :
        /\ q.status = "OPEN" /\ q.quantity = 3
        /\ q.entry_price = 1001 /\ q.margin = 500 + 1002
        /\ Len(trades) = 2

\* C18: whenever a settlement, market or limit, opens a new position, the
\* position gets the liquidation price entry * (1 - 1/leverage + mmr) when
\* LONG and entry * (1 + 1/leverage - mmr) when SHORT, mmr = 0.004 (entry
\* 50000 at leverage 10: 45200 for a LONG).
C18_OpensWithLiquidationPrice ==
    [][\A n \in positions' :
          (n.id \notin Ids(positions) /\ n.status = "OPEN")
          => /\ ~IsNull(n.liquidation_price)
             /\ LET e == n.entry_price
                IN Val(n.liquidation_price) =
                      IF n.position_side = "LONG"
                      THEN (e * (1000 * n.leverage - 1000 + 4 * n.leverage))
                              \div (1000 * n.leverage)
                      ELSE (e * (1000 * n.leverage + 1000 - 4 * n.leverage))
                              \div (1000 * n.leverage)]_vars


\* The positions the claimed test selects under the book bk: OPEN, with a
\* liquidation price, the symbol has a best bid and a best ask, and the
\* midpoint is at or past the liquidation price (twice the midpoint against
\* twice the price).
HighestBid(bk, symbol) == CHOOSE x \in {l[1] : l \in bk[symbol]["BID"]} :
                              \A y \in {l[1] : l \in bk[symbol]["BID"]} : x >= y
LowestAsk(bk, symbol) == CHOOSE x \in {l[1] : l \in bk[symbol]["ASK"]} :
                             \A y \in {l[1] : l \in bk[symbol]["ASK"]} : x <= y
MustLiquidate(ps, bk) ==
    {q \in ps :
        /\ q.status = "OPEN"
        /\ ~IsNull(q.liquidation_price)
        /\ bk[q.symbol]["BID"] # {}
        /\ bk[q.symbol]["ASK"] # {}
        /\ LET twice == HighestBid(bk, q.symbol) + LowestAsk(bk, q.symbol)
           IN IF q.position_side = "LONG"
              THEN twice <= 2 * Val(q.liquidation_price)
              ELSE twice >= 2 * Val(q.liquidation_price)}

\* C19: a liquidation tick selects exactly the positions that are OPEN, have
\* a liquidation price, whose symbol has a best bid and a best ask, and whose
\* mark price (bid + ask) / 2 is <= the liquidation price (LONG) or >= it
\* (SHORT), the bound included; the tick turns exactly the selected positions
\* LIQUIDATED and leaves every other position as it was.
C19_TickLiquidatesBreached ==
    [][\A p \in Procs :
          /\ TickStart(p) =>
                /\ proc'[p].rows = MustLiquidate(positions, book)
                /\ proc'[p].pc = "t_liquidate" <=> MustLiquidate(positions, book) # {}
          /\ TickLiquidate(p) =>
                /\ Ids(positions') = Ids(positions)
                /\ \A q \in positions :
                      IF q.id \in Ids(proc[p].rows)
                      THEN \E n \in positions' : n.id = q.id /\ n.status = "LIQUIDATED"
                      ELSE q \in positions']_vars


\* The positions a step turns from OPEN to LIQUIDATED, and the liquidation
\* trades (no order) it appends.
LiquidatedNow ==
    {q \in positions : /\ q.status = "OPEN"
                       /\ \E n \in positions' : n.id = q.id /\ n.status = "LIQUIDATED"}
LiquidationTrades ==
    {k \in DOMAIN trades' : k > Len(trades) /\ IsNull(trades'[k].order_id)}
MarginLost(i) ==
    LET mine == {q \in LiquidatedNow : q.account_id = i}
    IN SumOver([q \in mine |-> q.margin], mine)

\* C20: a liquidation commits as a whole: the position turns LIQUIDATED with
\* a close timestamp, the owning account's margin_balance and total_balance
\* each fall by the margin pledged to the position and available_balance
\* stays, and one Trade is appended for it with the closing side (SELL for a
\* LONG, BUY for a SHORT), the position's quantity and realized_pnl =
\* -margin; no part of this is committed without the rest.
C20_LiquidationEffects ==
    [][/\ \A q \in LiquidatedNow :
             \E n \in positions' : n.id = q.id /\ ~IsNull(n.closed_at)
       /\ Cardinality(LiquidationTrades) = Cardinality(LiquidatedNow)
       /\ \A q \in LiquidatedNow : \E k \in LiquidationTrades :
             /\ trades'[k].account_id = q.account_id
             /\ trades'[k].symbol = q.symbol
             /\ trades'[k].side = IF q.position_side = "LONG" THEN "SELL" ELSE "BUY"
             /\ trades'[k].quantity = q.quantity
             /\ trades'[k].realized_pnl = Some(0 - q.margin)
       /\ LiquidatedNow # {} =>
             \A i \in DOMAIN accounts :
                /\ accounts'[i].margin_balance = accounts[i].margin_balance - MarginLost(i)
                /\ accounts'[i].total_balance = accounts[i].total_balance - MarginLost(i)
                /\ accounts'[i].available_balance = accounts[i].available_balance]_vars


\* C21: while the monitor is running, a check that raises does not end the
\* loop: the error is logged, the loop stays alive, and it starts another
\* check (or the monitor is stopped), however many checks in a row fail.
C21_FailedTickRetried ==
    /\ [][\A p \in Procs :
             (monitor.task[p] = "loop" /\ monitor.running)
             => monitor'.task[p] = "loop"]_vars
    /\ \A p \in Procs :
          (monitor.task[p] = "loop" /\ monitor.logged[p] /\ monitor.running
             /\ proc[p].pc = "idle")
          ~> (proc[p].pc = "t_liquidate" \/ ~monitor.logged[p] \/ ~monitor.running)

\* A check is under way in a loop whose previous check failed.
C21_Witness ==
    \E p \in Procs : /\ monitor.task[p] = "loop"
                     /\ monitor.logged[p]
                     /\ monitor.running
                     /\ proc[p].pc = "t_liquidate"


\* C22: the monitor goes STOPPED -> RUNNING on start and RUNNING -> STOPPED
\* on stop.  A loop is spawned exactly by a start that finds the monitor
\* stopped (a start while running changes nothing); a loop ends only while
\* the monitor is stopped; no check begins to liquidate while the monitor is
\* stopped; and a loop that is alive when the monitor is stopped terminates.
C22_MonitorLifecycle ==
    /\ [][/\ (\E p \in Procs : monitor.task[p] = "none" /\ monitor'.task[p] = "loop")
             <=> (~monitor.running /\ monitor'.running)
          /\ \A p \in Procs :
                /\ (monitor.task[p] = "loop" /\ monitor'.task[p] = "none")
                   => ~monitor.running
                /\ (monitor.task[p] = "loop" /\ proc[p].pc = "idle"
                      /\ proc'[p].pc = "t_liquidate")
                   => monitor.running]_vars
    /\ \A p \in Procs :
          (monitor.task[p] = "loop" /\ ~monitor.running) ~> (monitor.task[p] = "none")


\* The rows a tick read at its start that are still OPEN in the committed
\* store when the tick commits.
StillOpen(p) ==
    {q \in positions : q.id \in Ids(proc[p].rows) /\ q.status = "OPEN"}
StillPledged(p, i) ==
    LET mine == {q \in StillOpen(p) : q.account_id = i}
    IN SumOver([q \in mine |-> q.margin], mine)

\* The positions the tick read are as a settlement may have left them:
\* OPEN (extended, reduced or untouched) or closed and deleted.
OnlySettled(p) ==
    \A q \in positions : q.id \in Ids(proc[p].rows) => q.status = "OPEN"

\* C23: a liquidation tick that commits after a settlement changed a position
\* it had read works from the committed position: it appends one liquidation
\* Trade for each position that is still OPEN, with that position's committed
\* quantity and -margin, debits each account the committed margin of those
\* positions, and does nothing for a position the settlement closed.
C23_SecondCommitReloads ==
    [][\A p \in Procs :
          (TickLiquidate(p) /\ ~TickRaises(p) /\ OnlySettled(p)) =>
             /\ Len(trades') = Len(trades) + Cardinality(StillOpen(p))
             /\ \A q \in StillOpen(p) :
                   \E k \in (Len(trades) + 1)..Len(trades') :
                      /\ trades'[k].account_id = q.account_id
                      /\ trades'[k].quantity = q.quantity
                      /\ trades'[k].realized_pnl = Some(0 - q.margin)
             /\ \A i \in DOMAIN accounts :
                   /\ accounts'[i].margin_balance =
                         accounts[i].margin_balance - StillPledged(p, i)
                   /\ accounts'[i].total_balance =
                         accounts[i].total_balance - StillPledged(p, i)]_vars


\* C24: a stop of the price-feed consumer never aborts a limit-matching call
\* midway: the step that clears is_running leaves every session that is
\* inside process_limit_orders with its transaction as it was.
InFlight == {p \in Procs : proc[p].pc \in InMatch}

C24_StopWaitsForTransaction ==
    [][(collector.is_running /\ ~collector'.is_running)
          => \A p \in InFlight : proc'[p] = proc[p]]_vars

\* C25: from the same starting ledger and for the same fill (side, quantity,
\* price, leverage), the market path and the limit path leave the same
\* position (quantity, entry price, margin, liquidation price, existence),
\* the same realized PnL and the same total_balance.
BothSettled ==
    /\ Len(orders) = 2
    /\ \A i \in 1..2 : orders[i].status = "FILLED" /\ TradesOf(i) # {}
    /\ \A p \in Procs : proc[p].pc = "idle"

PositionOf(a) ==
    {[position_side |-> q.position_side, quantity |-> q.quantity,
      entry_price |-> q.entry_price, margin |-> q.margin,
      liquidation_price |-> q.liquidation_price, status |-> q.status] :
        q \in {r \in positions : r.account_id = a}}

RealizedOf(i) ==
    {IF IsNull(trades[k].realized_pnl) THEN 0 ELSE Val(trades[k].realized_pnl) :
        k \in TradesOf(i)}

C25_EntryPointsAgree ==
    BothSettled =>
        /\ PositionOf(1) = PositionOf(2)
        /\ RealizedOf(2) = RealizedOf(1)
        /\ accounts[1].total_balance = accounts[2].total_balance

\* What closing quantity q at price x against position e is to yield: the
\* closed quantity, the raw PnL, the share of the margin that is released,
\* and the PnL with a loss above that share cut down to it.
Closing(e, q, x) ==
    LET close_qty == Min(q, e.quantity)
        direction == IF e.position_side = "LONG" THEN 1 ELSE -1
        raw == (x - e.entry_price) * close_qty * direction
        share == (e.margin * close_qty) \div e.quantity
    IN [close_qty |-> close_qty, raw |-> raw, share |-> share,
        clamped |-> IF raw < 0 - share THEN 0 - share ELSE raw]

\* The netting settlement session p commits in this step, as a record: the
\* account, the position read, the fill, the margin debited for a residual.
NettingStep(p) ==
    IF proc[p].pc = "po_settle"
    THEN LET r == Val(proc[p].req)
             ex == Val(proc[p].exec)
             c == Closing(Val(proc[p].pos), ex.filled_qty, ex.avg_price)
         IN [a |-> proc[p].account_id, e |-> Val(proc[p].pos), c |-> c,
             market |-> TRUE,
             debit |-> (ex.avg_price * (ex.filled_qty - c.close_qty))
                           \div r.leverage]
    ELSE LET o == orders[proc[p].order_id]
         IN [a |-> o.account_id, e |-> Val(proc[p].pos),
             c |-> Closing(Val(proc[p].pos), o.quantity, Val(o.price)),
             market |-> FALSE, debit |-> 0]

Nets(p) ==
    /\ \/ PlaceSettle(p)
       \/ MatchSettle(p) /\ proc[p].rows = {}
    /\ ~IsNull(proc[p].pos)
    /\ Val(proc[p].pos) \in positions

\* The effect of a netting settlement with realized PnL pnl.
NettingEffect(n, pnl) ==
    /\ accounts'[n.a].total_balance = accounts[n.a].total_balance + pnl
    /\ accounts'[n.a].margin_balance =
          accounts[n.a].margin_balance - n.c.share + n.debit
    /\ accounts'[n.a].available_balance =
          accounts[n.a].available_balance + n.c.share + pnl - n.debit
    /\ IF n.c.close_qty = n.e.quantity
       THEN n.e.id \notin Ids(positions')
       ELSE \E q \in positions' :
              /\ q.id = n.e.id
              /\ q.quantity = n.e.quantity - n.c.close_qty
              /\ q.margin = n.e.margin - n.c.share
              /\ q.status = "OPEN"

\* C26: a fill of q at p that finds an OPEN opposite position closes
\* close_qty = min(q, pos.quantity), moves margin * close_qty / pos.quantity
\* from margin_balance to available_balance, adds the PnL (p - entry) *
\* close_qty * direction (or that loss cut down to the released margin) to
\* total_balance and available_balance, and deletes the position when it is
\* closed in full or else reduces its quantity and margin by the closed
\* share; no OPEN position with quantity <= 0 remains.
C26_NettingEffects ==
    /\ [][\A p \in Procs : Nets(p) =>
             LET n == NettingStep(p)
             IN NettingEffect(n, n.c.raw) \/ NettingEffect(n, n.c.clamped)]_vars
    /\ [](\A q \in positions : q.status = "OPEN" => q.quantity > 0)

\* The settlement session p commits in this step: its account, side, fill,
\* leverage and path, what it closes of the position it read (nothing when it
\* read none), and the residual with its margin.
Commits(p) ==
    /\ \/ PlaceSettle(p)
       \/ MatchSettle(p) /\ proc[p].rows = {}
    /\ IsNull(proc[p].pos) \/ Val(proc[p].pos) \in positions

SettleStep(p) ==
    LET market == proc[p].pc = "po_settle"
        o == orders[proc[p].order_id]
        q == IF market THEN Val(proc[p].exec).filled_qty ELSE o.quantity
        x == IF market THEN Val(proc[p].exec).avg_price ELSE Val(o.price)
        c == IF IsNull(proc[p].pos)
             THEN [close_qty |-> 0, raw |-> 0, share |-> 0, clamped |-> 0]
             ELSE Closing(Val(proc[p].pos), q, x)
    IN [a |-> o.account_id, market |-> market, x |-> x,
        position_side |-> IF o.side = "BUY" THEN "LONG" ELSE "SHORT",
        leverage |-> o.leverage, share |-> c.share,
        pnl |-> IF market THEN c.clamped ELSE c.raw,
        residual |-> q - c.close_qty,
        new_margin |-> (x * (q - c.close_qty)) \div o.leverage]

OpenRows(ps, a, position_side) ==
    {q \in ps : q.account_id = a /\ q.position_side = position_side
                   /\ q.status = "OPEN"}

\* C27: a settlement with residual quantity opens the same-side position
\* with the residual and new_margin = p * residual / leverage, or adds both
\* to the one that is open; a MARKET fill moves exactly new_margin from
\* available_balance to margin_balance, a LIMIT fill changes no balance for
\* the opened part (the balances change by the netting part only).
C27_ResidualOpens ==
    [][\A p \in Procs : (Commits(p) /\ SettleStep(p).residual > 0) =>
          LET f == SettleStep(p)
              old == OpenRows(positions, f.a, f.position_side)
              debit == IF f.market THEN f.new_margin ELSE 0
          IN /\ \E n \in OpenRows(positions', f.a, f.position_side) :
                   IF old = {}
                   THEN /\ n.quantity = f.residual
                        /\ n.margin = f.new_margin
                        /\ n.entry_price = f.x
                        /\ n.leverage = f.leverage
                   ELSE \E e \in old :
                          /\ n.id = e.id
                          /\ n.quantity = e.quantity + f.residual
                          /\ n.margin = e.margin + f.new_margin
             /\ accounts'[f.a].margin_balance =
                   accounts[f.a].margin_balance - f.share + debit
             /\ accounts'[f.a].available_balance =
                   accounts[f.a].available_balance + f.share + f.pnl - debit
             /\ accounts'[f.a].total_balance =
                   accounts[f.a].total_balance + f.pnl]_vars

\* Both users' positions of three lots have been extended by both paths.
C27_Witness ==
    /\ BothSettled
    /\ \A i \in {1, 2} : \E q \in positions : q.id = i /\ q.quantity > 3

\* C28: every FILLED order has exactly one Trade row that refers to it, with
\* the order's side, the filled quantity and the fill price; the settlement
\* that commits leaves the PnL of its netting step (0 when it closed
\* nothing; an unset realized_pnl counts as 0) on the order's trade rows;
\* and a committed Trade row is never changed or removed afterwards.
PnlOf(t) == IF IsNull(t.realized_pnl) THEN 0 ELSE Val(t.realized_pnl)

C28_OneTradePerOrder ==
    /\ [](\A i \in DOMAIN orders : orders[i].status = "FILLED" =>
            /\ Cardinality(TradesOf(i)) = 1
            /\ \A k \in TradesOf(i) :
                  /\ trades[k].side = orders[i].side
                  /\ trades[k].quantity = orders[i].executed_quantity
                  /\ Some(trades[k].price) = orders[i].avg_price)
    /\ [][\A p \in Procs : Commits(p) =>
             \A k \in DOMAIN trades' :
                 trades'[k].order_id = Some(proc[p].order_id)
                     => PnlOf(trades'[k]) = SettleStep(p).pnl]_vars
    /\ [][\A k \in DOMAIN trades :
             k \in DOMAIN trades' /\ trades'[k] = trades[k]]_vars

\* C29: a fill that extends an OPEN same-side position changes its
\* quantity, margin and entry price (the quantity-weighted average) and
\* leaves its liquidation price as it was.
C29_ExtensionKeepsLiquidationPrice ==
    [][\A p \in Procs : (Commits(p) /\ SettleStep(p).residual > 0) =>
          LET f == SettleStep(p)
          IN \A e \in OpenRows(positions, f.a, f.position_side) :
                \E n \in positions' :
                    /\ n.id = e.id
                    /\ n.status = "OPEN"
                    /\ n.quantity = e.quantity + f.residual
                    /\ n.margin = e.margin + f.new_margin
                    /\ n.entry_price =
                          (e.quantity * e.entry_price + f.residual * f.x)
                              \div (e.quantity + f.residual)
                    /\ n.liquidation_price = e.liquidation_price]_vars

\* Three lots LONG entered at 400 have been extended by one lot at 1000 (the
\* entry price is now 550) and carry the liquidation price of the entry at 400.
C29_Witness ==
    \E q \in positions :
        /\ q.id \in {1, 2} /\ q.position_side = "LONG"
        /\ q.quantity = 4 /\ q.entry_price = 550
        /\ q.liquidation_price = Some(LiquidationPrice("LONG", 400, 2))

\* C30: a limit-matching call that fails on a trade print does not end the
\* consumer: the failure is logged, the call's transaction is rolled back
\* (the store is as it was and the session holds nothing), the task goes
\* on, and the next print is processed by a new call.
C30_FailedCycleContinues ==
    /\ [][(Consuming /\ ~collector.logged /\ collector'.logged) =>
             /\ collector'.is_running /\ collector'.ws_task = "running"
             /\ store' = store
             /\ proc'[1] = IdleProc]_vars
    /\ (collector.logged /\ Consuming /\ proc[1].pc = "idle")
           ~> (proc[1].pc \in InMatch \/ ~collector.logged \/ ~Consuming)

\* After a failed call, a later print has been claimed and is being settled.
C30_Witness ==
    collector.logged /\ Consuming /\ proc[1].pc = "m_settle"

\* The details under which place_order refuses a request.
Rejections ==
    {"Invalid leverage", "Quantity must be positive",
     "Price is required for LIMIT orders", "Insufficient balance",
     "Invalid account for this user"}

\* C31: place_order reports each rejection (invalid quantity, missing price
\* of a LIMIT order, invalid leverage, insufficient balance, account of
\* another user) under a client error kind of its own (400..499), never
\* under the 500 that answers a failure of the store.
C31_RejectionKinds ==
    \A p \in Procs :
        (~IsNull(proc[p].resp) /\ Val(proc[p].resp).detail \in Rejections)
            => /\ Val(proc[p].resp).code \in 400..499
               /\ Val(proc[p].resp).code # 500

\* C32: in every committed state every account has a non-negative
\* available balance and a non-negative margin balance, whatever the
\* interleaving of LIMIT intakes, MARKET settlements, netting closes,
\* cancels and liquidations.
C32_BalancesNonNegative ==
    \A a \in DOMAIN accounts :
        /\ accounts[a].available_balance >= 0
        /\ accounts[a].margin_balance >= 0

\* The margin of the OPEN positions of account a.
Pledged(a) ==
    LET mine == {q \in positions : q.account_id = a /\ q.status = "OPEN"}
    IN SumOver([q \in mine |-> q.margin], mine)

\* The margin reserved at intake for the PENDING LIMIT orders of account a.
Reserved(a) ==
    LET mine == {i \in DOMAIN orders :
                    /\ orders[i].account_id = a
                    /\ orders[i].status = "PENDING"
                    /\ orders[i].order_type = "LIMIT"}
    IN SumOver([i \in mine |-> RequiredMargin(Val(orders[i].price),
                                              orders[i].quantity,
                                              orders[i].leverage)], mine)

\* C33: in every committed state the margin balance of an account is the sum
\* of the margins of its OPEN positions plus the margin reserved for its
\* PENDING LIMIT orders: a LIMIT order that settles by closing an opposite
\* position leaves no reservation locked, and a liquidation or a cancel
\* removes no margin that backs something else.
C33_MarginBalanceBacked ==
    \A a \in DOMAIN accounts :
        accounts[a].margin_balance = Pledged(a) + Reserved(a)

\* C34: a LIQUIDATED position takes no further part in settlement: no
\* settlement that commits has read it as the position to net against (so
\* no PnL is realized on it and none of its margin is released), and its
\* row is neither deleted nor altered.
C34_LiquidatedIsFinal ==
    /\ [][\A p \in Procs : Nets(p) => Val(proc[p].pos).status = "OPEN"]_vars
    /\ [][\A q \in positions : q.status = "LIQUIDATED" => q \in positions']_vars

\* The LIQUIDATED positions of account i, the margin lost with them, and the
\* liquidation Trades of the account (those that belong to no order).
Liquidated(i) == {q \in positions : q.account_id = i /\ q.status = "LIQUIDATED"}
Lost(i) == SumOver([q \in Liquidated(i) |-> q.margin], Liquidated(i))
LiquidationTradesOf(i) ==
    {k \in DOMAIN trades : trades[k].account_id = i /\ IsNull(trades[k].order_id)}

\* C35: each position is liquidated at most once, also when two checks
\* overlap: in a ledger that only liquidations change, an account has lost
\* the margin of each of its LIQUIDATED positions once (total_balance is the
\* start balance less that margin) and has at most one liquidation Trade
\* for each of them.
C35_LiquidatedOnce ==
    \A i \in DOMAIN accounts :
        /\ accounts[i].total_balance = StartBalance - Lost(i)
        /\ Cardinality(LiquidationTradesOf(i)) <= Cardinality(Liquidated(i))

\* Session p commits a cancel in this step and refunds the margin of a LIMIT
\* order with it.
Refunds(p) ==
    /\ Returns(p, {"co_update"})
    /\ Answer(p).code = 200
    /\ orders[proc[p].order_id].order_type = "LIMIT"

\* C36: the reserved margin of a LIMIT order is refunded at most once and
\* never for a filled order: a cancel that commits a refund finds the order
\* still PENDING in the committed state (not CANCELLED by a concurrent
\* cancel, not FILLED by process_limit_orders).
C36_RefundOnce ==
    [][\A p \in Procs :
          Refunds(p) => orders[proc[p].order_id].status = "PENDING"]_vars

\* C37: after any sequence of start() and stop() calls at most one check
\* loop of the monitor is alive.
C37_OneLoop ==
    Cardinality({p \in Procs : monitor.task[p] = "loop"}) <= 1

\* C38: an order is FILLED only if its executed quantity equals the ordered
\* quantity: a MARKET order that the book fills in part is not recorded
\* FILLED with the remainder dropped.
C38_FilledInFull ==
    \A i \in DOMAIN orders :
        orders[i].status = "FILLED"
            => orders[i].executed_quantity = orders[i].quantity

\* The position with this id is OPEN and breached at the current mark price.
BreachedOpen(id) == \E q \in Breached(positions) : q.id = id

\* C39: while the monitor is running, an OPEN position that stays breached
\* is eventually LIQUIDATED under fair ticks, also when other positions are
\* breached in the same tick or an earlier LIQUIDATED row exists for the
\* same (account, symbol, side): no position stays OPEN and breached for
\* ever while the monitor runs.
C39_BreachedIsLiquidated ==
    \A id \in 1..3 : ~<>[](monitor.running /\ BreachedOpen(id))

\* C40: settlements that net against the same position concurrently close at
\* most its quantity and release at most its margin: no position row has a
\* negative quantity or a negative margin, and the margin of a position is
\* credited once, so that the margin balance of an account never falls
\* below the margin its OPEN positions pledge.
C40_NettingOnce ==
    /\ \A q \in positions : q.quantity >= 0 /\ q.margin >= 0
    /\ \A a \in DOMAIN accounts : accounts[a].margin_balance >= Pledged(a)
====
